---- MODULE Spec2Model ----
(***************************************************************************)
(* A model of the robust multi-source ETL pipeline of src/robust_etl.py:   *)
(* ErrorHandler (the ledger), DataValidator (validation and the rectifier  *)
(* passes) and RobustMultiSourceETL (register_source, the per-source       *)
(* extract/map loop, consolidate, transform, load and run with its         *)
(* try/except/finally).                                                    *)
(*                                                                         *)
(* Tables (pandas DataFrames) are records [cols, rows]: cols is the        *)
(* ordered column list, rows a sequence of rows, each row a sequence of    *)
(* cells aligned with cols.  A cell is a string; NaN is the missing value. *)
(* Python's None is the record None.  Ledger records leave out the         *)
(* 'timestamp' and 'traceback' fields, which no operation reads.           *)
(*                                                                         *)
(* Spec and SpecSources are the orchestration (run() over registered       *)
(* sources); SpecRerun and SpecConfigs start with two sources registered   *)
(* and repeat run(), the first with direct calls of consolidate(), the     *)
(* second under every configuration; SpecGender calls normalize_gender on  *)
(* single values and SpecValidator calls the rectifier passes of           *)
(* DataValidator on a table.                                               *)
(***************************************************************************)
EXTENDS Integers, Sequences, FiniteSets, TLC

VARIABLES
    data_sources,       \* self.data_sources: insertion-ordered dict, as a sequence of entries
    error_handler,      \* self.error_handler: [errors, warnings, corrections]
    consolidated_data,  \* self.consolidated_data
    transformed_data,   \* self.transformed_data
    pipeline_status,    \* self.pipeline_status
    pc,                 \* where run() stands; "idle" between calls
    frame,              \* run()'s locals and those of extract_and_map_all
    output_file,        \* <output_path>/<output_filename> on disk
    error_log,          \* <output_path>/error_log.json on disk
    outcome,            \* what the caller of the last run() observed
    calls,              \* register_source/run calls made on the instance
    runs,               \* run() calls made on the instance
    trace               \* what the last run() was called with and did: phases entered and
                        \* their results, sources processed, ledger saves, status writes

vars == <<data_sources, error_handler, consolidated_data, transformed_data,
          pipeline_status, pc, frame, output_file, error_log, outcome,
          calls, runs, trace>>

-----------------------------------------------------------------------------
(* Bounds *)

\* register_source and run calls on one pipeline instance
MaxCalls == 3

\* rows of a table handed to a rectifier pass directly
MaxRows == 2

-----------------------------------------------------------------------------
(* Python values *)

None == [none |-> TRUE]

\* pandas' missing value (NaN / NaT / None cell)
NaN == "<NaN>"

isna(v) == v = NaN

RECURSIVE SeqToSet(_)
SeqToSet(s) == IF s = <<>> THEN {} ELSE {Head(s)} \cup SeqToSet(Tail(s))

InSeq(x, s) == \E i \in 1..Len(s) : s[i] = x

RECURSIVE SelectSeqBy(_, _)
\* [x for x in s if x in keep], keep a sequence
SelectSeqBy(s, keep) ==
    IF s = <<>> THEN <<>>
    ELSE IF InSeq(Head(s), keep) THEN <<Head(s)>> \o SelectSeqBy(Tail(s), keep)
         ELSE SelectSeqBy(Tail(s), keep)

RECURSIVE RejectSeqBy(_, _)
\* [x for x in s if x not in drop]
RejectSeqBy(s, drop) ==
    IF s = <<>> THEN <<>>
    ELSE IF InSeq(Head(s), drop) THEN RejectSeqBy(Tail(s), drop)
         ELSE <<Head(s)>> \o RejectSeqBy(Tail(s), drop)

IndexOf(x, s) == CHOOSE i \in 1..Len(s) : s[i] = x /\ \A j \in 1..(i - 1) : s[j] # x

IsPrefix(s, t) == Len(s) <= Len(t) /\ SubSeq(t, 1, Len(s)) = s

-----------------------------------------------------------------------------
(* Strings: str.lower, str.strip, the `in` substring test, Path.suffix *)

UpperChars == <<"A","B","C","D","E","F","G","H","I","J","K","L","M",
                "N","O","P","Q","R","S","T","U","V","W","X","Y","Z">>
LowerChars == <<"a","b","c","d","e","f","g","h","i","j","k","l","m",
                "n","o","p","q","r","s","t","u","v","w","x","y","z">>

CharAt(s, i) == SubSeq(s, i, i)

LowerChar(c) == IF InSeq(c, UpperChars) THEN LowerChars[IndexOf(c, UpperChars)] ELSE c

RECURSIVE lower(_)
lower(s) == IF Len(s) = 0 THEN "" ELSE LowerChar(CharAt(s, 1)) \o lower(SubSeq(s, 2, Len(s)))

RECURSIVE lstrip(_)
lstrip(s) == IF Len(s) > 0 /\ CharAt(s, 1) = " " THEN lstrip(SubSeq(s, 2, Len(s))) ELSE s

RECURSIVE rstrip(_)
rstrip(s) == IF Len(s) > 0 /\ CharAt(s, Len(s)) = " " THEN rstrip(SubSeq(s, 1, Len(s) - 1)) ELSE s

strip(s) == rstrip(lstrip(s))

\* sub in s
Contains(s, sub) ==
    \E i \in 1..(Len(s) - Len(sub) + 1) : SubSeq(s, i, i + Len(sub) - 1) = sub

\* Path(s).suffix: from the last dot of the name, "" without one
suffix(s) ==
    LET dots == {i \in 2..Len(s) : CharAt(s, i) = "."}
    IN  IF dots = {} THEN ""
        ELSE LET d == CHOOSE i \in dots : \A j \in dots : j <= i
             IN  SubSeq(s, d, Len(s))

RECURSIVE JoinStr(_, _)
\* sep.join(items)
JoinStr(items, sep) ==
    IF items = <<>> THEN ""
    ELSE IF Len(items) = 1 THEN items[1]
         ELSE items[1] \o sep \o JoinStr(Tail(items), sep)

\* str(list_of_str), as an f-string renders it
ListRepr(items) == "[" \o JoinStr([i \in 1..Len(items) |-> "'" \o items[i] \o "'"], ", ") \o "]"

-----------------------------------------------------------------------------
(* pandas conversions *)

Digits == <<"0","1","2","3","4","5","6","7","8","9">>

IsDigit(c) == InSeq(c, Digits)

AllDigits(s) == Len(s) > 0 /\ \A i \in 1..Len(s) : IsDigit(CharAt(s, i))

RECURSIVE ToInt(_)
ToInt(s) ==
    IF Len(s) = 0 THEN 0
    ELSE 10 * ToInt(SubSeq(s, 1, Len(s) - 1)) + (IndexOf(CharAt(s, Len(s)), Digits) - 1)

IsLeap(y) == (y % 4 = 0 /\ y % 100 # 0) \/ y % 400 = 0

DaysInMonth(y, m) ==
    IF m = 2 THEN (IF IsLeap(y) THEN 29 ELSE 28)
    ELSE IF m \in {4, 6, 9, 11} THEN 30 ELSE 31

\* a calendar date written YYYY-MM-DD
IsIsoDate(s) ==
    /\ Len(s) = 10
    /\ CharAt(s, 5) = "-" /\ CharAt(s, 8) = "-"
    /\ AllDigits(SubSeq(s, 1, 4)) /\ AllDigits(SubSeq(s, 6, 7)) /\ AllDigits(SubSeq(s, 9, 10))
    /\ ToInt(SubSeq(s, 6, 7)) \in 1..12
    /\ ToInt(SubSeq(s, 9, 10)) \in 1..DaysInMonth(ToInt(SubSeq(s, 1, 4)), ToInt(SubSeq(s, 6, 7)))

Midnight == " 00:00:00"

\* a pandas Timestamp, written as str() renders it
IsTimestamp(v) == Len(v) = 19 /\ SubSeq(v, 11, 19) = Midnight /\ IsIsoDate(SubSeq(v, 1, 10))

\* to_datetime that parses texts only and does not know a Timestamp
to_datetime_text_only(v) ==
    IF isna(v) THEN NaN
    ELSE IF IsIsoDate(strip(v)) THEN strip(v) \o Midnight
    ELSE NaN

\* pd.to_datetime(v, errors='coerce') of one value: a Timestamp, or NaT
to_datetime(v) ==
    IF isna(v) THEN NaN
    ELSE IF IsTimestamp(v) THEN v
    ELSE IF IsIsoDate(strip(v)) THEN strip(v) \o Midnight
    ELSE NaN

\* Timestamp.strftime('%Y-%m-%d')
strftime(ts) == SubSeq(ts, 1, 10)

RECURSIVE StripZeros(_)
StripZeros(s) == IF Len(s) > 1 /\ CharAt(s, 1) = "0" THEN StripZeros(SubSeq(s, 2, Len(s))) ELSE s

\* pd.to_numeric(v, errors='coerce') of one value: the number (in canonical
\* decimal writing), or NaN
to_numeric(v) ==
    IF isna(v) THEN NaN
    ELSE IF AllDigits(strip(v)) THEN StripZeros(strip(v))
    ELSE NaN

-----------------------------------------------------------------------------
(* Tables *)

Table(cols, rows) == [cols |-> cols, rows |-> rows]

NumRows(df) == Len(df.rows)

HasColumn(df, col) == InSeq(col, df.cols)

\* df.empty: some axis has length 0
IsEmpty(df) == Len(df.cols) = 0 \/ Len(df.rows) = 0

\* df[col] = df[col].apply(f), for f given as a function on cells
ApplyColumn(df, col, f) ==
    LET k == IndexOf(col, df.cols)
    IN  Table(df.cols,
              [r \in 1..Len(df.rows) |->
                  [c \in 1..Len(df.cols) |->
                      IF c = k THEN f[df.rows[r][c]] ELSE df.rows[r][c]]])

\* the cells of one column
Column(df, col) == [r \in 1..Len(df.rows) |-> df.rows[r][IndexOf(col, df.cols)]]

\* the cells a table holds
Cells(df) == UNION {SeqToSet(df.rows[r]) : r \in 1..Len(df.rows)}

\* df[cols] returning the named columns in the table's order, not the order named
SelectColumns_table_order(df, cols) ==
    LET kept == SelectSeqBy(df.cols, cols)
    IN  Table(kept,
              [r \in 1..Len(df.rows) |->
                  [c \in 1..Len(kept) |-> df.rows[r][IndexOf(kept[c], df.cols)]]])

\* df[cols]: the named columns, in the order named
SelectColumns(df, cols) ==
    Table(cols,
          [r \in 1..Len(df.rows) |->
              [c \in 1..Len(cols) |-> df.rows[r][IndexOf(cols[c], df.cols)]]])

\* df[col] = value: overwrite the column, or append it
AssignColumn(df, col, value) ==
    IF HasColumn(df, col)
    THEN ApplyColumn(df, col, [v \in Cells(df) |-> value])
    ELSE Table(Append(df.cols, col),
               [r \in 1..Len(df.rows) |-> Append(df.rows[r], value)])

RECURSIVE DropDuplicateRows(_, _)
DropDuplicateRows(rows, seen) ==
    IF rows = <<>> THEN <<>>
    ELSE IF Head(rows) \in seen THEN DropDuplicateRows(Tail(rows), seen)
         ELSE <<Head(rows)>> \o DropDuplicateRows(Tail(rows), seen \cup {Head(rows)})

\* df.drop_duplicates(): the first occurrence of every row, in order
drop_duplicates(df) == Table(df.cols, DropDuplicateRows(df.rows, {}))

-----------------------------------------------------------------------------
(* The files under input_path and the sources a caller registers *)

InputPath == "data"

FileNames == {"staff.csv", "payroll.csv", "legacy.csv", "blank.csv",
              "notes.txt", "corrupt.csv", "ghost.csv", "phantom.txt"}

\* Path.exists()
FileExists(filename) == filename \notin {"ghost.csv", "phantom.txt"}

\* whether the reader raises on the file
ReaderRaises(filename) == filename = "corrupt.csv"

\* what pd.read_csv returns for the file
FileTable(filename) ==
    CASE filename = "staff.csv" ->
            Table(<<"emp_id", "sex">>,
                  << <<"1", "m">>, <<"2", " Female ">>, <<"1", "M">> >>)
      [] filename = "payroll.csv" ->
            Table(<<"id", "pay", "dob", "memo">>,
                  << <<"7", "0100", "2020-01-05", "a">>,
                     <<"7", "0100", "2020-01-05", "a">>,
                     <<"8", "n/a", "2020-13-45", "b">>,
                     <<"7", "0100", "2021-02-03", "c">> >>)
      [] filename = "legacy.csv" ->
            Table(<<"x">>, << <<"1">> >>)
      [] filename = "blank.csv" ->
            Table(<<"emp_id", "sex">>, <<>>)
      [] OTHER -> Table(<<>>, <<>>)

\* register_source's arguments: source_name, filename, column_mapping (a dict,
\* as the sequence of its (key, value) items)
Catalog ==
    { [name |-> "staff", filename |-> "staff.csv",
       mapping |-> << <<"emp_id", "employee_id">>, <<"sex", "gender">> >>],
      [name |-> "payroll", filename |-> "payroll.csv",
       mapping |-> << <<"id", "employee_id">>, <<"pay", "salary">>,
                      <<"dob", "date_of_birth">>, <<"dept", "department">> >>],
      [name |-> "legacy", filename |-> "legacy.csv",
       mapping |-> << <<"emp_id", "employee_id">> >>],
      [name |-> "bare", filename |-> "staff.csv", mapping |-> <<>>],
      [name |-> "blank", filename |-> "blank.csv",
       mapping |-> << <<"emp_id", "employee_id">> >>],
      [name |-> "notes", filename |-> "notes.txt",
       mapping |-> << <<"emp_id", "employee_id">> >>],
      [name |-> "corrupt", filename |-> "corrupt.csv",
       mapping |-> << <<"emp_id", "employee_id">> >>],
      [name |-> "ghost", filename |-> "ghost.csv",
       mapping |-> << <<"emp_id", "employee_id">> >>],
      [name |-> "phantom", filename |-> "phantom.txt",
       mapping |-> << <<"emp_id", "employee_id">>, <<"sex", "gender">> >>] }

\* the sources of the orchestration runs: two that extract and map (one with
\* rows that differ only in how the gender is written, the other with a
\* mapping key its file lacks, duplicate rows and unparseable cells) and two
\* whose file is missing
CoreSources == {"staff", "payroll", "ghost", "phantom"}

CoreCatalog == {c \in Catalog : c.name \in CoreSources}

\* mapping.keys()
MappingKeys(mapping) == [i \in 1..Len(mapping) |-> mapping[i][1]]

\* mapping[col]
MappingGet(mapping, col) == mapping[IndexOf(col, MappingKeys(mapping))][2]

-----------------------------------------------------------------------------
(* ErrorHandler *)

\* a Python int, and the numpy.int64 a pandas reduction returns
PyInt(k) == [type |-> "int", value |-> k]
NpInt64(k) == [type |-> "numpy.int64", value |-> k]

ErrorHandlerInit == [errors |-> <<>>, warnings |-> <<>>, corrections |-> <<>>]

\* log_error with errors.insert(0, record) for errors.append(record)
log_error_prepends(eh, stage, error_msg, details) ==
    [eh EXCEPT !.errors =
        <<[stage |-> stage, error |-> error_msg, details |-> details]>> \o @]

log_error(eh, stage, error_msg, details) ==
    [eh EXCEPT !.errors =
        Append(@, [stage |-> stage, error |-> error_msg, details |-> details])]

log_warning(eh, stage, warning_msg) ==
    [eh EXCEPT !.warnings = Append(@, [stage |-> stage, warning |-> warning_msg])]

log_correction(eh, stage, action, affected_rows) ==
    [eh EXCEPT !.corrections =
        Append(@, [stage |-> stage, action |-> action, affected_rows |-> affected_rows])]

get_error_report(eh) ==
    [total_errors |-> Len(eh.errors),
     total_warnings |-> Len(eh.warnings),
     total_corrections |-> Len(eh.corrections),
     errors |-> eh.errors,
     warnings |-> eh.warnings,
     corrections |-> eh.corrections]

\* json can encode the record: every number in it is a Python int
JsonEncodable(correction) == correction.affected_rows.type = "int"

\* the corrections json.dump writes before it meets one it cannot encode
RECURSIVE EncodablePrefix(_)
EncodablePrefix(corrections) ==
    IF corrections = <<>> \/ ~JsonEncodable(Head(corrections)) THEN <<>>
    ELSE <<Head(corrections)>> \o EncodablePrefix(Tail(corrections))

\* save_error_log: the file json.dump leaves behind, and whether it raised.
\* json.dump writes the report piece by piece: a value it cannot encode
\* raises TypeError and leaves the text written so far.
save_error_log(eh) ==
    LET report == get_error_report(eh)
        written == EncodablePrefix(eh.corrections)
    IN  IF written = eh.corrections
        THEN [raised |-> FALSE, file |-> [complete |-> TRUE, report |-> report]]
        ELSE [raised |-> TRUE,
              file |-> [complete |-> FALSE,
                        report |-> [report EXCEPT !.corrections = written]]]

\* print_error_summary raises exactly when enumerate() is handed the integer
\* report['total_warnings'], that is, when there is a warning to list
print_error_summary_raises(eh) == get_error_report(eh).total_warnings > 0

-----------------------------------------------------------------------------
(* DataValidator *)

FilePath(filename) == InputPath \o "/" \o filename

\* validate_file_exists without its log_error call
validate_file_exists_silent(eh, filename) == [ok |-> FileExists(filename), eh |-> eh]

validate_file_exists(eh, filename) ==
    IF ~FileExists(filename)
    THEN [ok |-> FALSE,
          eh |-> log_error(eh, "validation", "File not found: " \o FilePath(filename),
                           "This file is required for processing")]
    ELSE [ok |-> TRUE, eh |-> eh]

\* validate_dataframe logging its issues as an error
validate_dataframe_as_error(eh, df, source_name) ==
    IF IsEmpty(df)
    THEN [ok |-> FALSE, eh |-> log_error(eh, source_name, "Issues", "DataFrame is empty")]
    ELSE [ok |-> TRUE, eh |-> eh]

validate_dataframe(eh, df, source_name) ==
    LET issues ==
            (IF IsEmpty(df) THEN <<"DataFrame is empty">> ELSE <<>>)
            \o (IF Len(df.cols) = 0 THEN <<"DataFrame has no columns">> ELSE <<>>)
            \o (IF Len(df.rows) = 0 THEN <<"DataFrame has no rows">> ELSE <<>>)
    IN  IF issues # <<>>
        THEN [ok |-> FALSE,
              eh |-> log_warning(eh, source_name, "Issues: " \o JoinStr(issues, ", "))]
        ELSE [ok |-> TRUE, eh |-> eh]

RECURSIVE AddColumns(_, _, _)
\* the loop of rectify_missing_columns over missing_cols
AddColumns(acc, missing_cols, source_name) ==
    IF missing_cols = <<>> THEN acc
    ELSE AddColumns(
            [df |-> AssignColumn(acc.df, Head(missing_cols), NaN),
             eh |-> log_correction(acc.eh, source_name,
                        "Added missing column: " \o Head(missing_cols) \o " (filled with None)",
                        PyInt(NumRows(acc.df)))],
            Tail(missing_cols), source_name)

rectify_missing_columns(eh, df, required_columns, source_name) ==
    LET missing_cols == RejectSeqBy(required_columns, df.cols)
    IN  IF missing_cols # <<>>
        THEN AddColumns(
                [df |-> df,
                 eh |-> log_warning(eh, source_name,
                            "Missing columns detected: " \o ListRepr(missing_cols))],
                missing_cols, source_name)
        ELSE [df |-> df, eh |-> eh]

\* the column-name tests of rectify_data_types
IsDateColumn(col) == Contains(lower(col), "date") \/ Contains(lower(col), "dob")

IsNumericColumn(col) ==
    Contains(lower(col), "salary")
    \/ col \in {"salary", "pay", "annual_salary", "compensation"}

rectify_data_types(eh, df) ==
    LET coerce(col, v) ==
            IF IsDateColumn(col) THEN to_datetime(v)
            ELSE IF IsNumericColumn(col) THEN to_numeric(v)
            ELSE v
        corrections_made ==
            Cardinality({c \in 1..Len(df.cols) :
                            IsDateColumn(df.cols[c]) \/ IsNumericColumn(df.cols[c])})
        fixed ==
            Table(df.cols,
                  [r \in 1..Len(df.rows) |->
                      [c \in 1..Len(df.cols) |-> coerce(df.cols[c], df.rows[r][c])]])
    IN  [df |-> fixed,
         eh |-> IF corrections_made > 0
                THEN log_correction(eh, "data_type_fix",
                        "Rectified data types for " \o ToString(corrections_made) \o " columns",
                        PyInt(NumRows(df)))
                ELSE eh]

rectify_duplicates(eh, df, source_name) ==
    LET deduped == drop_duplicates(df)
        removed == NumRows(df) - NumRows(deduped)
    IN  [df |-> deduped,
         eh |-> IF removed > 0
                THEN log_correction(eh, source_name, "Removed duplicate rows", PyInt(removed))
                ELSE eh]

\* FillRule with df = df.fillna(fill_value) for df[col] = df[col].fillna(fill_value)
FillRule_whole_table(acc, col, fill_value) ==
    IF HasColumn(acc.df, col)
    THEN LET column == Column(acc.df, col)
             missing_count == Cardinality({r \in 1..Len(column) : isna(column[r])})
         IN  IF missing_count > 0
             THEN [df |-> Table(acc.df.cols,
                             [r \in 1..Len(acc.df.rows) |->
                                 [c \in 1..Len(acc.df.cols) |->
                                     IF isna(acc.df.rows[r][c]) THEN fill_value
                                     ELSE acc.df.rows[r][c]]]),
                   eh |-> log_correction(acc.eh, "missing_values",
                             "Filled " \o ToString(missing_count) \o " missing values in "
                                 \o col \o " with '" \o fill_value \o "'",
                             NpInt64(missing_count))]
             ELSE acc
    ELSE acc

\* one (col, fill_value) rule of rectify_missing_values
FillRule(acc, col, fill_value) ==
    IF HasColumn(acc.df, col)
    THEN LET column == Column(acc.df, col)
             missing_count == Cardinality({r \in 1..Len(column) : isna(column[r])})
         IN  IF missing_count > 0
             THEN [df |-> ApplyColumn(acc.df, col,
                             [v \in Cells(acc.df) |-> IF isna(v) THEN fill_value ELSE v]),
                   eh |-> log_correction(acc.eh, "missing_values",
                             "Filled " \o ToString(missing_count) \o " missing values in "
                                 \o col \o " with '" \o fill_value \o "'",
                             NpInt64(missing_count))]
             ELSE acc
    ELSE acc

RECURSIVE FillRules(_, _)
FillRules(acc, fill_rules) ==
    IF fill_rules = <<>> THEN acc
    ELSE FillRules(FillRule(acc, fill_rules[1][1], fill_rules[1][2]), Tail(fill_rules))

\* fill_rules: a dict, as the sequence of its (column, fill value) items
rectify_missing_values(eh, df, fill_rules) == FillRules([df |-> df, eh |-> eh], fill_rules)

-----------------------------------------------------------------------------
(* RobustMultiSourceETL: the registry *)

SourceNames(ds) == [i \in 1..Len(ds) |-> ds[i].name]

IsRegistered(ds, name) == InSeq(name, SourceNames(ds))

Entry(ds, name) == ds[IndexOf(name, SourceNames(ds))]

SetStatus(ds, name, status) ==
    [ds EXCEPT ![IndexOf(name, SourceNames(ds))].status = status]

SetData(ds, name, df) ==
    [ds EXCEPT ![IndexOf(name, SourceNames(ds))].data = df]

\* data_sources[source_name] = {...}: a new key goes last, an existing key
\* keeps its place and has its value replaced
register_source(ds, source_name, filename, column_mapping) ==
    LET entry == [name |-> source_name, filename |-> filename,
                  mapping |-> column_mapping, data |-> None, status |-> "registered"]
    IN  IF IsRegistered(ds, source_name)
        THEN [ds EXCEPT ![IndexOf(source_name, SourceNames(ds))] = entry]
        ELSE Append(ds, entry)

-----------------------------------------------------------------------------
(* RobustMultiSourceETL: per-source steps *)

\* the reader dispatch of extract_source: the table read, or the message of
\* the exception raised
ReadFile(filename) ==
    IF suffix(filename) = ".csv" \/ suffix(filename) \in {".xlsx", ".xls"}
    THEN IF ReaderRaises(filename)
         THEN [raised |-> TRUE, message |-> "Error tokenizing data"]
         ELSE [raised |-> FALSE, df |-> FileTable(filename)]
    ELSE [raised |-> TRUE, message |-> "Unsupported file format: " \o suffix(filename)]

\* extract_source with the reader dispatch ahead of the existence check
extract_source_format_first(ds, eh, source_name) ==
    LET filename == Entry(ds, source_name).filename
        read == ReadFile(filename)
    IN  IF read.raised
        THEN [df |-> None,
              eh |-> log_error(eh, "extraction_" \o source_name,
                        "Failed to read file: " \o FilePath(filename), read.message),
              ds |-> SetStatus(ds, source_name, "extraction_failed")]
        ELSE LET exists == validate_file_exists(eh, filename)
             IN  IF ~exists.ok
                 THEN [df |-> None, eh |-> exists.eh,
                       ds |-> SetStatus(ds, source_name, "file_not_found")]
                 ELSE LET valid == validate_dataframe(exists.eh, read.df, source_name)
                      IN  IF ~valid.ok
                          THEN [df |-> None, eh |-> valid.eh,
                                ds |-> SetStatus(ds, source_name, "validation_failed")]
                          ELSE [df |-> read.df, eh |-> valid.eh,
                                ds |-> SetStatus(ds, source_name, "extracted")]

\* extract_source: [df, eh, ds], df = None on failure
extract_source(ds, eh, source_name) ==
    LET filename == Entry(ds, source_name).filename
        exists == validate_file_exists(eh, filename)
    IN  IF ~exists.ok
        THEN [df |-> None, eh |-> exists.eh,
              ds |-> SetStatus(ds, source_name, "file_not_found")]
        ELSE LET read == ReadFile(filename)
             IN  IF read.raised
                 THEN [df |-> None,
                       eh |-> log_error(exists.eh, "extraction_" \o source_name,
                                 "Failed to read file: " \o FilePath(filename), read.message),
                       ds |-> SetStatus(ds, source_name, "extraction_failed")]
                 ELSE LET valid == validate_dataframe(exists.eh, read.df, source_name)
                      IN  IF ~valid.ok
                          THEN [df |-> None, eh |-> valid.eh,
                                ds |-> SetStatus(ds, source_name, "validation_failed")]
                          ELSE [df |-> read.df, eh |-> valid.eh,
                                ds |-> SetStatus(ds, source_name, "extracted")]

\* SelectAndRename without the selection: df.rename(columns=...) alone
SelectAndRename_keeps_all(df, mapping, available_cols) ==
    Table([c \in 1..Len(df.cols) |->
              IF InSeq(df.cols[c], available_cols) THEN MappingGet(mapping, df.cols[c])
              ELSE df.cols[c]],
          df.rows)

\* df[available_cols].copy().rename(columns=...)
SelectAndRename(df, mapping, available_cols) ==
    LET picked == SelectColumns(df, available_cols)
    IN  Table([c \in 1..Len(available_cols) |-> MappingGet(mapping, available_cols[c])],
              picked.rows)

\* map_columns without the `if available_cols` test: the selection, empty or
\* not, is renamed, tagged and returned
map_columns_unchecked(ds, eh, df, source_name) ==
    LET mapping == Entry(ds, source_name).mapping
        available_cols == SelectSeqBy(MappingKeys(mapping), df.cols)
        missing_cols == RejectSeqBy(MappingKeys(mapping), df.cols)
    IN  [df |-> AssignColumn(SelectAndRename(df, mapping, available_cols),
                             "source", source_name),
         eh |-> IF missing_cols # <<>>
                THEN log_warning(eh, "mapping_" \o source_name,
                         "Missing columns in mapping: " \o ListRepr(missing_cols))
                ELSE eh,
         ds |-> SetStatus(ds, source_name, "mapped")]

\* map_columns: [df, eh, ds], df = None on failure
map_columns(ds, eh, df, source_name) ==
    LET mapping == Entry(ds, source_name).mapping
        available_cols == SelectSeqBy(MappingKeys(mapping), df.cols)
        missing_cols == RejectSeqBy(MappingKeys(mapping), df.cols)
        eh1 == IF missing_cols # <<>>
               THEN log_warning(eh, "mapping_" \o source_name,
                        "Missing columns in mapping: " \o ListRepr(missing_cols))
               ELSE eh
    IN  IF available_cols # <<>>
        THEN [df |-> AssignColumn(SelectAndRename(df, mapping, available_cols),
                                  "source", source_name),
              eh |-> eh1,
              ds |-> SetStatus(ds, source_name, "mapped")]
        ELSE [df |-> None,
              eh |-> log_error(eh1, "mapping_" \o source_name, "No columns could be mapped",
                        "Available cols: " \o ListRepr(df.cols)),
              ds |-> SetStatus(ds, source_name, "mapping_failed")]

-----------------------------------------------------------------------------
(* RobustMultiSourceETL: the phases after the per-source loop *)

RECURSIVE StoredTables(_)
\* [info['data'] for info in data_sources.values() if info['data'] is not None]
StoredTables(ds) ==
    IF ds = <<>> THEN <<>>
    ELSE IF Head(ds).data # None THEN <<Head(ds).data>> \o StoredTables(Tail(ds))
         ELSE StoredTables(Tail(ds))

RECURSIVE UnionColumns(_, _)
\* the columns of the concatenation: every input's columns, in order of first appearance
UnionColumns(dataframes, acc) ==
    IF dataframes = <<>> THEN acc
    ELSE UnionColumns(Tail(dataframes), acc \o RejectSeqBy(Head(dataframes).cols, acc))

\* the rows of df laid out on cols, NaN where df lacks the column
Reindex(df, cols) ==
    [r \in 1..Len(df.rows) |->
        [c \in 1..Len(cols) |->
            IF HasColumn(df, cols[c]) THEN df.rows[r][IndexOf(cols[c], df.cols)] ELSE NaN]]

RECURSIVE StackRows(_, _)
StackRows(dataframes, cols) ==
    IF dataframes = <<>> THEN <<>>
    ELSE Reindex(Head(dataframes), cols) \o StackRows(Tail(dataframes), cols)

\* pd.concat(dataframes, join='inner'): only the columns every input has
concat_inner(dataframes) ==
    LET InAll(c) == \A k \in 1..Len(dataframes) : HasColumn(dataframes[k], c)
        cols == SelectSeq(UnionColumns(dataframes, <<>>), InAll)
    IN  Table(cols, StackRows(dataframes, cols))

\* pd.concat(dataframes, ignore_index=True, sort=False)
concat(dataframes) ==
    LET cols == UnionColumns(dataframes, <<>>)
    IN  Table(cols, StackRows(dataframes, cols))

\* consolidate without the test of `not dataframes`
consolidate_unguarded(ds, eh, consolidated) ==
    [ok |-> TRUE, eh |-> eh, consolidated_data |-> concat(StoredTables(ds))]

\* consolidate: [ok, eh, consolidated_data]
consolidate(ds, eh, consolidated) ==
    LET dataframes == StoredTables(ds)
    IN  IF dataframes = <<>>
        THEN [ok |-> FALSE,
              eh |-> log_error(eh, "consolidation", "No data sources to consolidate",
                               "All sources failed to process"),
              consolidated_data |-> consolidated]
        ELSE [ok |-> TRUE, eh |-> eh, consolidated_data |-> concat(dataframes)]

\* normalize_gender with str(gender_value).lower() for .strip().lower()
normalize_gender_untrimmed(gender_value) ==
    IF isna(gender_value) THEN "Unknown"
    ELSE LET gender_str == lower(gender_value)
         IN  IF gender_str \in {"m", "mm", "male", "1"} THEN "M"
             ELSE IF gender_str \in {"f", "ff", "female", "2"} THEN "F"
             ELSE "Unknown"

\* normalize_gender without the pd.isna test: a missing value stays missing
normalize_gender_keeps_null(gender_value) ==
    IF isna(gender_value) THEN gender_value
    ELSE LET gender_str == lower(strip(gender_value))
         IN  IF gender_str \in {"m", "mm", "male", "1"} THEN "M"
             ELSE IF gender_str \in {"f", "ff", "female", "2"} THEN "F"
             ELSE "Unknown"

normalize_gender(gender_value) ==
    IF isna(gender_value) THEN "Unknown"
    ELSE LET gender_str == lower(strip(gender_value))
         IN  IF gender_str \in {"m", "mm", "male", "1"} THEN "M"
             ELSE IF gender_str \in {"f", "ff", "female", "2"} THEN "F"
             ELSE IF gender_str \in {"0", "unknown"} THEN "Unknown"
             ELSE "Unknown"

format_date(date_value) ==
    IF isna(date_value) THEN NaN
    ELSE LET parsed_date == to_datetime(date_value)
         IN  IF isna(parsed_date) THEN NaN ELSE strftime(parsed_date)

\* bool(config): neither None nor an empty dict
Truthy(config) == config # None /\ DOMAIN config # {}

\* config.get(key, default) if config else default
ConfigGet(config, key, default) ==
    IF Truthy(config) /\ key \in DOMAIN config THEN config[key] ELSE default

RECURSIVE FormatDates(_, _)
FormatDates(df, date_columns) ==
    IF date_columns = <<>> THEN df
    ELSE FormatDates(
            IF HasColumn(df, Head(date_columns))
            THEN ApplyColumn(df, Head(date_columns), [v \in Cells(df) |-> format_date(v)])
            ELSE df,
            Tail(date_columns))

\* transform with the duplicate removal moved ahead of the normalization,
\* the date formatting and the filling
transform_dedup_first(eh, consolidated, transformed_before, config) ==
    IF consolidated = None
    THEN [ok |-> FALSE,
          eh |-> log_error(eh, "transform", "No consolidated data to transform",
                           "Run consolidate() first"),
          transformed_data |-> transformed_before]
    ELSE
    LET r0 == IF Truthy(config) /\ ConfigGet(config, "remove_duplicates", TRUE)
              THEN rectify_duplicates(eh, consolidated, "transform")
              ELSE [df |-> consolidated, eh |-> eh]
        t1 == IF HasColumn(r0.df, "gender")
              THEN ApplyColumn(r0.df, "gender",
                       [v \in Cells(r0.df) |-> normalize_gender(v)])
              ELSE r0.df
        t2 == FormatDates(t1, ConfigGet(config, "date_columns", <<>>))
        fill_rules == ConfigGet(config, "fill_missing_values", <<>>)
        r4 == IF fill_rules # <<>>
              THEN rectify_missing_values(r0.eh, t2, fill_rules)
              ELSE [df |-> t2, eh |-> r0.eh]
        final_cols == ConfigGet(config, "final_columns", <<>>)
        available_cols == SelectSeqBy(final_cols, r4.df.cols)
        missing_cols == RejectSeqBy(final_cols, r4.df.cols)
    IN  IF final_cols # <<>>
        THEN [ok |-> TRUE,
              eh |-> IF missing_cols # <<>>
                     THEN log_warning(r4.eh, "transform",
                              "Requested columns not in data: " \o ListRepr(missing_cols))
                     ELSE r4.eh,
              transformed_data |-> SelectColumns(r4.df, available_cols)]
        ELSE [ok |-> TRUE, eh |-> r4.eh, transformed_data |-> r4.df]

\* transform, from the copy of consolidated_data on: [ok, eh, transformed_data]
transform(eh, consolidated, transformed_before, config) ==
    IF consolidated = None
    THEN [ok |-> FALSE,
          eh |-> log_error(eh, "transform", "No consolidated data to transform",
                           "Run consolidate() first"),
          transformed_data |-> transformed_before]
    ELSE
    LET t1 == IF HasColumn(consolidated, "gender")
              THEN ApplyColumn(consolidated, "gender",
                       [v \in Cells(consolidated) |-> normalize_gender(v)])
              ELSE consolidated
        t2 == FormatDates(t1, ConfigGet(config, "date_columns", <<>>))
        fill_rules == ConfigGet(config, "fill_missing_values", <<>>)
        r3 == IF fill_rules # <<>>
              THEN rectify_missing_values(eh, t2, fill_rules)
              ELSE [df |-> t2, eh |-> eh]
        r4 == IF Truthy(config) /\ ConfigGet(config, "remove_duplicates", TRUE)
              THEN rectify_duplicates(r3.eh, r3.df, "transform")
              ELSE r3
        final_cols == ConfigGet(config, "final_columns", <<>>)
        available_cols == SelectSeqBy(final_cols, r4.df.cols)
        missing_cols == RejectSeqBy(final_cols, r4.df.cols)
    IN  IF final_cols # <<>>
        THEN [ok |-> TRUE,
              eh |-> IF missing_cols # <<>>
                     THEN log_warning(r4.eh, "transform",
                              "Requested columns not in data: " \o ListRepr(missing_cols))
                     ELSE r4.eh,
              transformed_data |-> SelectColumns(r4.df, available_cols)]
        ELSE [ok |-> TRUE, eh |-> r4.eh, transformed_data |-> r4.df]

\* DataFrame.to_csv(index=False): a header row and one record per row, a
\* missing value written as the empty field
to_csv(df) ==
    [header |-> df.cols,
     records |-> [r \in 1..Len(df.rows) |->
                    [c \in 1..Len(df.cols) |->
                        IF isna(df.rows[r][c]) THEN "" ELSE df.rows[r][c]]]]

\* load: [ok, eh, output_file]
load(eh, transformed, file_before) ==
    IF transformed = None
    THEN [ok |-> FALSE,
          eh |-> log_error(eh, "load", "No transformed data to load", "Run transform() first"),
          output_file |-> file_before]
    ELSE [ok |-> TRUE, eh |-> eh, output_file |-> to_csv(transformed)]

\* the configurations run() is called with: no config, an empty one, and two
\* with options set
Configs ==
    { None,
      <<>>,
      [remove_duplicates |-> TRUE],
      [date_columns |-> <<"date_of_birth">>,
       remove_duplicates |-> TRUE,
       fill_missing_values |-> << <<"gender", "Unknown">>, <<"salary", "0">> >>,
       final_columns |-> <<"employee_id", "gender", "salary">>] }

\* the exception, if any, the environment raises during one run, named by
\* where it is raised: in a rectifier pass of the per-source loop, in
\* pd.concat, in a step of transform, in to_csv, or in run()'s own try block
Faults == {"rectify", "concat", "transform", "to_csv", "run"}

\* run()'s argument and the environment of the run: every configuration
\* without a fault, every fault under the default configuration
RunInputs ==
    {[config |-> c, fault |-> "none"] : c \in Configs}
    \cup {[config |-> None, fault |-> f] : f \in Faults}

\* the runs that exercise the per-source loop alone: the default
\* configuration, with or without an exception in a rectifier pass
LoopRunInputs == {[config |-> None, fault |-> f] : f \in {"none", "rectify"}}

-----------------------------------------------------------------------------
(* The pipeline instance and its caller *)

TerminalStatuses ==
    {"completed_successfully", "failed_extract", "failed_consolidate",
     "failed_transform", "failed_load", "failed_unexpected"}

\* run()'s positions inside its try block
PhasePcs == {"extract_source", "map_columns", "rectify", "consolidate", "transform", "load"}

NoFrame ==
    [config |-> None, fault |-> "none", source_idx |-> 0, df |-> None,
     successful_sources |-> 0, failed_sources |-> <<>>, returns |-> "unset"]

NoTrace ==
    [config |-> None, fault |-> "none", sources_at_call |-> <<>>,
     status_at_call |-> "initialized", ledger_at_call |-> ErrorHandlerInit,
     phases |-> <<>>, results |-> <<>>,
     processed |-> <<>>, completed |-> <<>>, raised |-> <<>>,
     saves |-> 0, summaries |-> 0, status_writes |-> <<>>]

\* RobustMultiSourceETL.__init__, and a caller that has called nothing yet
Init ==
    /\ data_sources = <<>>
    /\ error_handler = ErrorHandlerInit
    /\ consolidated_data = None
    /\ transformed_data = None
    /\ pipeline_status = "initialized"
    /\ pc = "idle"
    /\ frame = NoFrame
    /\ output_file = None
    /\ error_log = None
    /\ outcome = "not called"
    /\ calls = 0
    /\ runs = 0
    /\ trace = NoTrace

\* the caller registers a source
Call_register_source(c) ==
    /\ pc = "idle"
    /\ calls < MaxCalls
    /\ data_sources' = register_source(data_sources, c.name, c.filename, c.mapping)
    /\ calls' = calls + 1
    /\ UNCHANGED <<error_handler, consolidated_data, transformed_data, pipeline_status,
                   pc, frame, output_file, error_log, outcome, runs, trace>>

\* the caller calls run(config=input.config); control enters extract_and_map_all
Call_run(input) ==
    /\ pc = "idle"
    /\ calls < MaxCalls
    /\ calls' = calls + 1
    /\ runs' = runs + 1
    /\ pc' = "extract_source"
    /\ frame' = [NoFrame EXCEPT !.config = input.config, !.fault = input.fault,
                                !.source_idx = 1]
    /\ outcome' = "running"
    /\ trace' = [NoTrace EXCEPT !.config = input.config,
                                !.fault = input.fault,
                                !.sources_at_call = SourceNames(data_sources),
                                !.status_at_call = pipeline_status,
                                !.ledger_at_call = error_handler,
                                !.phases = <<"extract">>]
    /\ UNCHANGED <<data_sources, error_handler, consolidated_data, transformed_data,
                   pipeline_status, output_file, error_log>>

\* LeaveTry without the assignment to pipeline_status
LeaveTry_status_not_set(status, value) ==
    /\ UNCHANGED pipeline_status
    /\ frame' = [frame EXCEPT !.returns = value]
    /\ pc' = "finally_save"

\* run() leaves its try block with `return value`, the status set: the finally
\* block is next
LeaveTry(status, value) ==
    /\ pipeline_status' = status
    /\ frame' = [frame EXCEPT !.returns = value]
    /\ pc' = "finally_save"

\* the source the loop of extract_and_map_all stands at
CurrentSource == data_sources[frame.source_idx].name

\* loop body, first half: extract_source, and `continue` on None
Step_extract_source ==
    /\ pc = "extract_source"
    /\ frame.source_idx <= Len(data_sources)
    /\ LET got == extract_source(data_sources, error_handler, CurrentSource)
       IN  /\ data_sources' = got.ds
           /\ error_handler' = got.eh
           /\ trace' = [trace EXCEPT !.processed = Append(@, CurrentSource)]
           /\ IF got.df = None
              THEN /\ frame' = [frame EXCEPT !.failed_sources = Append(@, CurrentSource),
                                             !.source_idx = @ + 1]
                   /\ pc' = "extract_source"
              ELSE /\ frame' = [frame EXCEPT !.df = got.df]
                   /\ pc' = "map_columns"
    /\ UNCHANGED <<consolidated_data, transformed_data, pipeline_status, output_file,
                   error_log, outcome, calls, runs>>

\* loop body, second half: map_columns, and `continue` on None
Step_map_columns ==
    /\ pc = "map_columns"
    /\ LET got == map_columns(data_sources, error_handler, frame.df, CurrentSource)
       IN  /\ data_sources' = got.ds
           /\ error_handler' = got.eh
           /\ IF got.df = None
              THEN /\ frame' = [frame EXCEPT !.failed_sources = Append(@, CurrentSource),
                                             !.source_idx = @ + 1,
                                             !.df = None]
                   /\ pc' = "extract_source"
              ELSE /\ frame' = [frame EXCEPT !.df = got.df]
                   /\ pc' = "rectify"
    /\ UNCHANGED <<consolidated_data, transformed_data, pipeline_status, output_file,
                   error_log, outcome, calls, runs, trace>>

\* loop body, last part: the two rectifier passes, the table stored, the
\* source counted
Step_rectify ==
    /\ pc = "rectify"
    /\ frame.fault # "rectify"
    /\ LET typed == rectify_data_types(error_handler, frame.df)
           deduped == rectify_duplicates(typed.eh, typed.df, CurrentSource)
       IN  /\ error_handler' = deduped.eh
           /\ data_sources' = SetData(data_sources, CurrentSource, deduped.df)
    /\ frame' = [frame EXCEPT !.successful_sources = @ + 1,
                              !.source_idx = @ + 1,
                              !.df = None]
    /\ trace' = [trace EXCEPT !.completed = Append(@, CurrentSource)]
    /\ pc' = "extract_source"
    /\ UNCHANGED <<consolidated_data, transformed_data, pipeline_status, output_file,
                   error_log, outcome, calls, runs>>

\* an exception raised by a rectifier pass: the loop's except clause logs it,
\* counts the source as failed and goes on with the next source
Step_rectify_raises ==
    /\ pc = "rectify"
    /\ frame.fault = "rectify"
    /\ error_handler' = log_error(error_handler, "extract_and_map_" \o CurrentSource,
                            "Unexpected error processing " \o CurrentSource, "MemoryError")
    /\ frame' = [frame EXCEPT !.failed_sources = Append(@, CurrentSource),
                              !.source_idx = @ + 1,
                              !.df = None,
                              !.fault = "none"]
    /\ trace' = [trace EXCEPT !.raised = Append(@, CurrentSource)]
    /\ pc' = "extract_source"
    /\ UNCHANGED <<data_sources, consolidated_data, transformed_data, pipeline_status,
                   output_file, error_log, outcome, calls, runs>>

\* extract_and_map_all returning `not failed_sources`
extract_and_map_all_requires_all == frame.failed_sources = <<>>

\* extract_and_map_all returning True
extract_and_map_all_returns_true == TRUE

\* the value extract_and_map_all returns
extract_and_map_all_returns == frame.successful_sources > 0

\* the loop is over: extract_and_map_all returns and run() takes phase 1's
\* branch
Step_extract_done ==
    /\ pc = "extract_source"
    /\ frame.source_idx > Len(data_sources)
    /\ LET ok == extract_and_map_all_returns
       IN  /\ IF ok
              THEN /\ pc' = "consolidate"
                   /\ trace' = [trace EXCEPT !.results = Append(@, ok),
                                             !.phases = Append(@, "consolidate")]
                   /\ UNCHANGED <<error_handler, pipeline_status, frame>>
              ELSE /\ error_handler' = log_error(error_handler, "pipeline",
                                          "Extract and map phase failed",
                                          "No sources processed successfully")
                   /\ trace' = [trace EXCEPT !.results = Append(@, ok),
                                             !.status_writes = Append(@, "failed_extract")]
                   /\ LeaveTry("failed_extract", "False")
    /\ UNCHANGED <<data_sources, consolidated_data, transformed_data, output_file,
                   error_log, outcome, calls, runs>>

\* AfterPhase with the early `return False` of a failed phase left out: the
\* failure is logged and the status set, and the next phase runs all the same
AfterPhase_no_return(ok, eh, next_pc, next_phase, fail_status, fail_msg, fail_details) ==
    /\ error_handler' =
            IF ok THEN eh ELSE log_error(eh, "pipeline", fail_msg, fail_details)
    /\ pipeline_status' = IF ok THEN pipeline_status ELSE fail_status
    /\ pc' = next_pc
    /\ trace' = [trace EXCEPT !.results = Append(@, ok),
                              !.phases = Append(@, next_phase),
                              !.status_writes = IF ok THEN @ ELSE Append(@, fail_status)]
    /\ UNCHANGED frame

\* a phase of run() after the first has returned `ok`: on success control goes
\* on to next_pc (entering next_phase), on failure run() logs its own error,
\* sets the phase's failure status and returns False
AfterPhase(ok, eh, next_pc, next_phase, fail_status, fail_msg, fail_details) ==
    IF ok
    THEN /\ error_handler' = eh
         /\ pc' = next_pc
         /\ trace' = [trace EXCEPT !.results = Append(@, ok),
                                   !.phases = Append(@, next_phase)]
         /\ UNCHANGED <<pipeline_status, frame>>
    ELSE /\ error_handler' = log_error(eh, "pipeline", fail_msg, fail_details)
         /\ trace' = [trace EXCEPT !.results = Append(@, ok),
                                   !.status_writes = Append(@, fail_status)]
         /\ LeaveTry(fail_status, "False")

\* phase 2: consolidate() and run()'s branch on its result
Step_consolidate ==
    /\ pc = "consolidate"
    /\ frame.fault # "concat"
    /\ LET got == consolidate(data_sources, error_handler, consolidated_data)
       IN  /\ consolidated_data' = got.consolidated_data
           /\ AfterPhase(got.ok, got.eh, "transform", "transform", "failed_consolidate",
                         "Consolidation phase failed", "Could not merge sources")
    /\ UNCHANGED <<data_sources, transformed_data, output_file, error_log, outcome,
                   calls, runs>>

\* phase 2 when pd.concat raises: consolidate()'s except clause
Step_consolidate_raises ==
    /\ pc = "consolidate"
    /\ frame.fault = "concat"
    /\ AfterPhase(FALSE,
                  log_error(error_handler, "consolidation", "Failed to consolidate data",
                            "MemoryError"),
                  "transform", "transform", "failed_consolidate",
                  "Consolidation phase failed", "Could not merge sources")
    /\ UNCHANGED <<data_sources, consolidated_data, transformed_data, output_file,
                   error_log, outcome, calls, runs>>

\* phase 3: transform(config) and run()'s branch on its result
Step_transform ==
    /\ pc = "transform"
    /\ frame.fault # "transform"
    /\ LET got == transform(error_handler, consolidated_data, transformed_data, frame.config)
       IN  /\ transformed_data' = got.transformed_data
           /\ AfterPhase(got.ok, got.eh, "load", "load", "failed_transform",
                         "Transformation phase failed", "Could not transform data")
    /\ UNCHANGED <<data_sources, consolidated_data, output_file, error_log, outcome,
                   calls, runs>>

\* phase 3 when a step of transform raises: transform()'s except clause
Step_transform_raises ==
    /\ pc = "transform"
    /\ frame.fault = "transform"
    /\ AfterPhase(FALSE,
                  log_error(error_handler, "transform", "Transformation failed",
                            "MemoryError"),
                  "load", "load", "failed_transform",
                  "Transformation phase failed", "Could not transform data")
    /\ UNCHANGED <<data_sources, consolidated_data, transformed_data, output_file,
                   error_log, outcome, calls, runs>>

\* run() after load() has returned `ok`
AfterLoad(ok, eh) ==
    IF ok
    THEN /\ error_handler' = eh
         /\ trace' = [trace EXCEPT !.results = Append(@, ok),
                                   !.status_writes = Append(@, "completed_successfully")]
         /\ LeaveTry("completed_successfully", "True")
    ELSE /\ error_handler' = log_error(eh, "pipeline", "Load phase failed",
                                       "Could not save output")
         /\ trace' = [trace EXCEPT !.results = Append(@, ok),
                                   !.status_writes = Append(@, "failed_load")]
         /\ LeaveTry("failed_load", "False")

\* phase 4: load() and the end of run()'s try block
Step_load ==
    /\ pc = "load"
    /\ frame.fault # "to_csv"
    /\ LET got == load(error_handler, transformed_data, output_file)
       IN  /\ output_file' = got.output_file
           /\ AfterLoad(got.ok, got.eh)
    /\ UNCHANGED <<data_sources, consolidated_data, transformed_data, error_log, outcome,
                   calls, runs>>

\* phase 4 when to_csv raises: load()'s except clause
Step_load_raises ==
    /\ pc = "load"
    /\ frame.fault = "to_csv"
    /\ transformed_data # None
    /\ AfterLoad(FALSE, log_error(error_handler, "load", "Failed to save data", "OSError"))
    /\ UNCHANGED <<data_sources, consolidated_data, transformed_data, output_file,
                   error_log, outcome, calls, runs>>

\* an exception that reaches run()'s own except clause, wherever in the try
\* block it was raised
Step_run_raises ==
    /\ pc \in PhasePcs
    /\ frame.fault = "run"
    /\ error_handler' = log_error(error_handler, "pipeline", "Unexpected pipeline error",
                                  "MemoryError")
    /\ trace' = [trace EXCEPT !.status_writes = Append(@, "failed_unexpected")]
    /\ LeaveTry("failed_unexpected", "False")
    /\ UNCHANGED <<data_sources, consolidated_data, transformed_data, output_file,
                   error_log, outcome, calls, runs>>

\* finally, first statement: save_error_log.  An exception it raises replaces
\* run()'s pending return and skips print_error_summary.
Step_save_error_log ==
    /\ pc = "finally_save"
    /\ LET saved == save_error_log(error_handler)
       IN  /\ error_log' = saved.file
           /\ trace' = [trace EXCEPT !.saves = @ + 1]
           /\ IF saved.raised
              THEN /\ outcome' = "raised TypeError in save_error_log"
                   /\ pc' = "idle"
                   /\ frame' = NoFrame
              ELSE /\ pc' = "finally_summary"
                   /\ UNCHANGED <<outcome, frame>>
    /\ UNCHANGED <<data_sources, error_handler, consolidated_data, transformed_data,
                   pipeline_status, output_file, calls, runs>>

\* finally, second statement: print_error_summary, then run() returns (or the
\* exception of print_error_summary replaces the pending return)
Step_print_error_summary ==
    /\ pc = "finally_summary"
    /\ IF print_error_summary_raises(error_handler)
       THEN /\ outcome' = "raised TypeError in print_error_summary"
            /\ UNCHANGED trace
       ELSE /\ outcome' = "returned " \o frame.returns
            /\ trace' = [trace EXCEPT !.summaries = @ + 1]
    /\ pc' = "idle"
    /\ frame' = NoFrame
    /\ UNCHANGED <<data_sources, error_handler, consolidated_data, transformed_data,
                   pipeline_status, output_file, error_log, calls, runs>>

\* the steps of the per-source loop of extract_and_map_all
LoopSteps ==
    \/ Step_extract_source
    \/ Step_map_columns
    \/ Step_rectify
    \/ Step_rectify_raises
    \/ Step_extract_done

\* the steps of run() after the loop
PhaseSteps ==
    \/ Step_consolidate
    \/ Step_transform
    \/ Step_load
    \/ Step_save_error_log
    \/ Step_print_error_summary

\* the steps in which a phase, or run() itself, catches an exception
FaultSteps ==
    \/ Step_consolidate_raises
    \/ Step_transform_raises
    \/ Step_load_raises
    \/ Step_run_raises

\* the orchestration: any configuration, any fault, the core sources
Next ==
    \/ \E c \in CoreCatalog : Call_register_source(c)
    \/ \E input \in RunInputs : Call_run(input)
    \/ LoopSteps
    \/ PhaseSteps
    \/ FaultSteps

Spec == Init /\ [][Next]_vars

\* the per-source loop: every kind of source, the default configuration
NextSources ==
    \/ \E c \in Catalog : Call_register_source(c)
    \/ \E input \in LoopRunInputs : Call_run(input)
    \/ LoopSteps
    \/ PhaseSteps

SpecSources == Init /\ [][NextSources]_vars

\* a caller that has registered two sources, as run_robust_pipeline.py does
\* before it calls run(); calls counts the calls made from here on
InitRegistered ==
    LET source(n) == CHOOSE c \in Catalog : c.name = n
        registered(ds, n) ==
            register_source(ds, source(n).name, source(n).filename, source(n).mapping)
    IN  /\ data_sources = registered(registered(<<>>, "staff"), "payroll")
        /\ error_handler = ErrorHandlerInit
        /\ consolidated_data = None
        /\ transformed_data = None
        /\ pipeline_status = "initialized"
        /\ pc = "idle"
        /\ frame = NoFrame
        /\ output_file = None
        /\ error_log = None
        /\ outcome = "not called"
        /\ calls = 0
        /\ runs = 0
        /\ trace = NoTrace

\* the caller calls consolidate() itself; raises says whether pd.concat,
\* if it is reached, raises
Call_consolidate(raises) ==
    /\ pc = "idle"
    /\ calls < MaxCalls
    /\ calls' = calls + 1
    /\ LET got == consolidate(data_sources, error_handler, consolidated_data)
       IN  IF raises /\ StoredTables(data_sources) # <<>>
           THEN /\ error_handler' = log_error(error_handler, "consolidation",
                                        "Failed to consolidate data", "MemoryError")
                /\ outcome' = "returned False"
                /\ UNCHANGED consolidated_data
           ELSE /\ error_handler' = got.eh
                /\ consolidated_data' = got.consolidated_data
                /\ outcome' = IF got.ok THEN "returned True" ELSE "returned False"
    /\ UNCHANGED <<data_sources, transformed_data, pipeline_status, pc, frame,
                   output_file, error_log, runs, trace>>

\* repeated runs over the two registered sources under the default
\* configuration, with or without an exception in a rectifier pass or in
\* pd.concat, and direct calls of consolidate()
NextRerun ==
    \/ \E f \in {"none", "rectify", "concat"} : Call_run([config |-> None, fault |-> f])
    \/ \E raises \in BOOLEAN : Call_consolidate(raises)
    \/ LoopSteps
    \/ PhaseSteps
    \/ Step_consolidate_raises

SpecRerun == InitRegistered /\ [][NextRerun]_vars

\* configurations that name the gender column among the date columns, with
\* and without a fill rule for it
GenderAsDateConfigs ==
    { [date_columns |-> <<"gender">>],
      [date_columns |-> <<"date_of_birth", "gender">>,
       remove_duplicates |-> FALSE,
       fill_missing_values |-> << <<"gender", "N/A">> >>] }

\* runs over the two registered sources under every configuration, no
\* exception raised
NextConfigs ==
    \/ \E c \in Configs \cup GenderAsDateConfigs : Call_run([config |-> c, fault |-> "none"])
    \/ Step_extract_source
    \/ Step_map_columns
    \/ Step_rectify
    \/ Step_extract_done
    \/ PhaseSteps

SpecConfigs == InitRegistered /\ [][NextConfigs]_vars

-----------------------------------------------------------------------------
(* Properties *)

RunEnded == runs > 0 /\ pc = "idle"

InFinally == pc \in {"finally_save", "finally_summary"}

PhaseOrder == <<"extract", "consolidate", "transform", "load">>

FailureStatus == <<"failed_extract", "failed_consolidate", "failed_transform", "failed_load">>

\* C1: run() hands its caller a boolean and never raises, save for a failure
\* to write the output file or the error-log file.
C1_RunReturnsStatus ==
    outcome \in {"not called", "running", "returned True", "returned False",
                 "raised TypeError in save_error_log"}

\* C2: on every exit path of run() the ledger is persisted exactly once, after
\* the terminal status was set and the last record appended, and the persisted
\* report holds every record of the ledger.
C2_LedgerPersistedOnce ==
    RunEnded =>
        /\ trace.saves = 1
        /\ Len(trace.status_writes) = 1
        /\ pipeline_status \in TerminalStatuses
        /\ error_log = [complete |-> TRUE, report |-> get_error_report(error_handler)]

\* C3: the phases of run() execute in the order extract/map, consolidate,
\* transform, load; a phase starts only after every earlier phase reported
\* success; the first phase to report failure sets its own failure status and
\* no later phase executes; completed_successfully is set only after all four
\* phases reported success.
C3_PhasesInOrder ==
    /\ IsPrefix(trace.phases, PhaseOrder)
    /\ Len(trace.results) <= Len(trace.phases)
    /\ \A i \in 1..Len(trace.phases) : \A j \in 1..(i - 1) :
            j <= Len(trace.results) /\ trace.results[j]
    /\ \A i \in 1..Len(trace.results) :
            ~trace.results[i] =>
                /\ Len(trace.phases) = i
                /\ trace.status_writes = <<FailureStatus[i]>>
                /\ pipeline_status = FailureStatus[i]
    /\ \A i \in 1..Len(FailureStatus) :
            InSeq(FailureStatus[i], trace.status_writes) =>
                Len(trace.results) = i /\ ~trace.results[i]
    /\ InSeq("completed_successfully", trace.status_writes) =>
            trace.results = <<TRUE, TRUE, TRUE, TRUE>> /\ trace.phases = PhaseOrder

\* a run in which extract and consolidate succeeded and transform failed
C3_Witness ==
    /\ RunEnded
    /\ trace.phases = <<"extract", "consolidate", "transform">>
    /\ trace.results = <<TRUE, TRUE, FALSE>>
    /\ pipeline_status = "failed_transform"

\* the source's file can be extracted, validated and mapped: it exists, has a
\* supported suffix, parses to a table that is not empty, and at least one
\* key of the mapping is a column of it
Processable(entry) ==
    /\ FileExists(entry.filename)
    /\ ~ReadFile(entry.filename).raised
    /\ ~IsEmpty(FileTable(entry.filename))
    /\ \E k \in SeqToSet(MappingKeys(entry.mapping)) : HasColumn(FileTable(entry.filename), k)

LoopOver == pc # "idle" /\ Len(trace.results) >= 1

\* C4: the extract/map phase reports success if and only if at least one
\* registered source completes extraction, validation, mapping and
\* rectification; a source's failure, at any step or by an exception, neither
\* keeps a later source from being processed nor ends the run.
C4_LoopToleratesFailures ==
    /\ pc \in {"extract_source", "map_columns", "rectify"} =>
            /\ trace.status_writes = <<>>
            /\ IsPrefix(trace.processed, SourceNames(data_sources))
    /\ LoopOver =>
            /\ trace.processed = SourceNames(data_sources)
            /\ trace.results[1] = (trace.completed # <<>>)
            /\ SeqToSet(trace.completed) =
                  {data_sources[i].name : i \in {j \in 1..Len(data_sources) :
                                                    Processable(data_sources[j])}}
                  \ SeqToSet(trace.raised)

\* the phase succeeded although the first of two sources failed
C4_Witness ==
    /\ pc = "consolidate"
    /\ Len(trace.processed) = 2
    /\ trace.completed = <<trace.processed[2]>>
    /\ trace.results = <<TRUE>>

\* C5 as stated: while a phase executes, the status is that phase's
\* in-progress state, and a run that has ended is in a terminal state.
C5_StatusFollowsPhases ==
    /\ pc \in {"extract_source", "map_columns", "rectify"} => pipeline_status = "extracting"
    /\ pc = "consolidate" => pipeline_status = "consolidating"
    /\ pc = "transform" => pipeline_status = "transforming"
    /\ pc = "load" => pipeline_status = "loading"
    /\ RunEnded => pipeline_status \in TerminalStatuses

\* C5 (amended): the status is never an in-progress value: it is
\* 'initialized' until the first run leaves its try block, keeps the value it
\* had when run() was called while the phases execute, and is assigned exactly
\* once per run, on leaving the try block, one of the six terminal values;
\* every run ends in one of the six terminal states.
C5_StatusSetOnceAtExit ==
    /\ pipeline_status \in {"initialized"} \cup TerminalStatuses
    /\ runs = 0 => pipeline_status = "initialized"
    /\ pc \in PhasePcs =>
            trace.status_writes = <<>> /\ pipeline_status = trace.status_at_call
    /\ (InFinally \/ RunEnded) =>
            /\ Len(trace.status_writes) = 1
            /\ pipeline_status = trace.status_writes[1]
            /\ pipeline_status \in TerminalStatuses

\* a second run, in its load phase, still in the terminal status of the first
C5_Witness ==
    /\ runs = 2
    /\ pc = "load"
    /\ pipeline_status = "failed_extract"

\* a source with nothing for the rectifier to repair: every column of its
\* file is mapped, every mapping key is a column, and no row repeats
FullyValid(entry) ==
    /\ Processable(entry)
    /\ SeqToSet(MappingKeys(entry.mapping)) = SeqToSet(FileTable(entry.filename).cols)
    /\ drop_duplicates(FileTable(entry.filename)) = FileTable(entry.filename)

\* the first run on the instance, called without a config, no exception raised
\* by the environment
FirstDefaultRun == runs = 1 /\ trace.config = None /\ trace.fault = "none"

\* the run Scenario A describes has ended
ScenarioA ==
    /\ RunEnded
    /\ FirstDefaultRun
    /\ Len(trace.sources_at_call) = 2
    /\ \E v, m \in SeqToSet(trace.sources_at_call) :
            /\ FullyValid(Entry(data_sources, v))
            /\ ~FileExists(Entry(data_sources, m).filename)

\* C6 (Scenario A): with two sources registered, one fully valid and one whose
\* file is missing, run() completes with status completed_successfully, the
\* output has as many rows as the surviving source, and the ledger holds
\* exactly one error, the NotFound one.
C6_ScenarioA ==
    ScenarioA =>
        /\ pipeline_status = "completed_successfully"
        /\ outcome = "returned True"
        /\ \E v \in SeqToSet(trace.sources_at_call) :
              /\ FullyValid(Entry(data_sources, v))
              /\ output_file # None
              /\ Len(output_file.records) = NumRows(FileTable(Entry(data_sources, v).filename))
        /\ Len(error_handler.errors) = 1
        /\ error_handler.errors[1].stage = "validation"
        /\ IsPrefix("File not found: ", error_handler.errors[1].error)

C6_Witness == ScenarioA /\ output_file # None

\* the run Scenario B describes has left its try block: the first run on the
\* instance, one source or more, the file of each missing
ScenarioB ==
    /\ InFinally \/ RunEnded
    /\ runs = 1
    /\ trace.fault # "run"
    /\ trace.sources_at_call # <<>>
    /\ \A n \in SeqToSet(trace.sources_at_call) :
            ~FileExists(Entry(data_sources, n).filename)

\* C7 (Scenario B): when every one of the N >= 1 registered sources points at
\* a missing file, run() ends with status failed_extract, consolidated_data
\* and transformed_data stay None, and the ledger holds at least N errors.
C7_ScenarioB ==
    ScenarioB =>
        /\ pipeline_status = "failed_extract"
        /\ consolidated_data = None
        /\ transformed_data = None
        /\ Len(error_handler.errors) >= Len(trace.sources_at_call)

C7_Witness == ScenarioB /\ RunEnded /\ Len(trace.sources_at_call) = 2

FailureStatuses ==
    {"file_not_found", "extraction_failed", "validation_failed", "mapping_failed",
     "mapping_error", "error"}

StatusRank(status) ==
    CASE status = "registered" -> 0
      [] status = "extracted" -> 1
      [] status = "mapped" -> 2
      [] OTHER -> 3

\* a status change that moves forward along registered -> extracted -> mapped,
\* or from one of these into a failure status
Forward(old, new) == old \notin FailureStatuses /\ StatusRank(new) > StatusRank(old)

\* C8: across register_source and run calls, a source's status only moves
\* forward along registered -> extracted -> mapped or into a failure status;
\* it never returns to an earlier status and never leaves a failure status.
\* Stated of the steps of run() alone: a register_source call that replaces
\* an entry is not held against the claim.
C8_StatusMonotonic ==
    [][pc # "idle" =>
          \A i \in 1..Len(data_sources) :
              \/ data_sources'[i].status = data_sources[i].status
              \/ Forward(data_sources[i].status, data_sources'[i].status)]_vars

\* C9: the three logs of the ledger are append-only: across every step of the
\* pipeline each log's contents are a prefix of its contents after the step.
C9_LedgerAppendOnly ==
    [][/\ IsPrefix(error_handler.errors, error_handler'.errors)
       /\ IsPrefix(error_handler.warnings, error_handler'.warnings)
       /\ IsPrefix(error_handler.corrections, error_handler'.corrections)]_vars

\* a run has ended (report built, ledger saved, summary entered) with records
\* in all three logs
C9_Witness ==
    /\ RunEnded
    /\ trace.saves = 1
    /\ Len(error_handler.errors) >= 2
    /\ error_handler.warnings # <<>>
    /\ error_handler.corrections # <<>>

\* no key of the mapping is a column of the table
NoKeyMatches(mapping, df) == \A k \in SeqToSet(MappingKeys(mapping)) : ~HasColumn(df, k)

\* C10: for a source whose mapping has no key that is a column of its table
\* (an empty mapping included), map_columns returns None and appends exactly
\* one error record; the source gets no mapped table.
C10_NoMappableColumns ==
    [][(pc = "map_columns"
        /\ NoKeyMatches(data_sources[frame.source_idx].mapping, frame.df))
       => /\ Len(error_handler'.errors) = Len(error_handler.errors) + 1
          /\ frame'.df = None
          /\ pc' = "extract_source"
          /\ frame'.failed_sources = Append(frame.failed_sources, CurrentSource)
          /\ data_sources'[frame.source_idx].data = None
          /\ data_sources'[frame.source_idx].status = "mapping_failed"]_vars

\* map_columns has failed for a source with an empty mapping and for one whose
\* mapping names only absent columns
C10_Witness ==
    /\ Len(data_sources) = 2
    /\ \A i \in 1..2 : data_sources[i].status = "mapping_failed"
    /\ \E i \in 1..2 : data_sources[i].mapping = <<>>
    /\ \E i \in 1..2 : data_sources[i].mapping # <<>>

RECURSIVE SumRows(_)
\* the rows the tables hold together
SumRows(dataframes) ==
    IF dataframes = <<>> THEN 0 ELSE NumRows(Head(dataframes)) + SumRows(Tail(dataframes))

\* consolidate() has just succeeded: run() stands before transform
Consolidated == pc = "transform" /\ consolidated_data # None

\* C11: the consolidated table holds the rows of the stored tables stacked in
\* registration order, none dropped; its columns are the union of the
\* inputs' columns; a row's cell in a column its source lacks is null, and in
\* a column its source has it is the source's cell.
C11_ConsolidateStacks ==
    Consolidated =>
        LET dataframes == StoredTables(data_sources)
            out == consolidated_data
        IN  /\ NumRows(out) = SumRows(dataframes)
            /\ SeqToSet(out.cols) = UNION {SeqToSet(dataframes[k].cols) : k \in 1..Len(dataframes)}
            /\ Cardinality(SeqToSet(out.cols)) = Len(out.cols)
            /\ \A k \in 1..Len(dataframes) : \A r \in 1..NumRows(dataframes[k]) :
                  LET row == out.rows[SumRows(SubSeq(dataframes, 1, k - 1)) + r]
                  IN  \A c \in 1..Len(out.cols) :
                        row[c] = IF HasColumn(dataframes[k], out.cols[c])
                                 THEN dataframes[k].rows[r][IndexOf(out.cols[c], dataframes[k].cols)]
                                 ELSE NaN

\* two tables with different columns were consolidated: the first table's
\* rows, then the second's, each with nulls in the other's columns
C11_Witness ==
    /\ Consolidated
    /\ Len(StoredTables(data_sources)) = 2
    /\ StoredTables(data_sources)[1].cols # StoredTables(data_sources)[2].cols
    /\ NumRows(consolidated_data) >= 3
    /\ NaN \in SeqToSet(consolidated_data.rows[1])
    /\ NaN \in SeqToSet(consolidated_data.rows[NumRows(consolidated_data)])

\* transform() has just succeeded: run() stands before load
Transformed == pc = "load" /\ transformed_data # None

NoDuplicateRows(df) ==
    \A i, j \in 1..NumRows(df) : df.rows[i] = df.rows[j] => i = j

\* the configuration does not set remove_duplicates to False
DedupNotDisabled(config) ==
    ~Truthy(config) \/ "remove_duplicates" \notin DOMAIN config \/ config.remove_duplicates

\* C12: remove_duplicates defaults to true: unless the configuration sets it
\* to False (so also when the key is omitted, the config is empty or no
\* config is passed), the table transform produces has no two equal rows.
\* Stated of the runs without final_columns, where no later step of
\* transform touches the rows.
C12_DedupByDefault ==
    (Transformed /\ DedupNotDisabled(trace.config)
     /\ ConfigGet(trace.config, "final_columns", <<>>) = <<>>)
        => NoDuplicateRows(transformed_data)

\* C13: when final_columns is given, the transformed table's columns are the
\* requested columns the table has, in the order the configuration lists
\* them; requested columns the table lacks produce a warning of transform
\* that names them, and no error; without final_columns every column is kept.
C13_FinalColumns ==
    [][(pc = "transform" /\ pc' = "load") =>
          LET final_cols == ConfigGet(frame.config, "final_columns", <<>>)
              InTable(c) == HasColumn(consolidated_data, c)
              absent == {c \in SeqToSet(final_cols) : ~InTable(c)}
              warned == Len(error_handler.warnings) + 1
          IN  /\ transformed_data'.cols =
                    IF final_cols # <<>> THEN SelectSeq(final_cols, InTable)
                    ELSE consolidated_data.cols
              /\ error_handler'.errors = error_handler.errors
              /\ IF absent = {}
                 THEN error_handler'.warnings = error_handler.warnings
                 ELSE /\ Len(error_handler'.warnings) = warned
                      /\ error_handler'.warnings[warned].stage = "transform"
                      /\ \A c \in absent :
                            Contains(error_handler'.warnings[warned].warning, "'" \o c \o "'")]_vars

\* transform has projected a table of four columns that lacked one of the
\* three requested columns, and has warned about it
C13_Witness ==
    /\ Transformed
    /\ ConfigGet(trace.config, "final_columns", <<>>) # <<>>
    /\ transformed_data.cols = <<"employee_id", "salary">>
    /\ Len(consolidated_data.cols) = 4
    /\ ~HasColumn(consolidated_data, "gender")
    /\ \E i \in 1..Len(error_handler.warnings) : error_handler.warnings[i].stage = "transform"

-----------------------------------------------------------------------------
(* normalize_gender called on single values *)

\* gender values as they are written in source files: a word (in lower case)
\* and one way of spelling it
GenderSpellings ==
    { <<"m", "m">>, <<"m", "M">>, <<"mm", "mm">>, <<"mm", "Mm">>, <<"mm", "MM">>,
      <<"male", "male">>, <<"male", "Male">>, <<"male", "MALE">>, <<"1", "1">>,
      <<"f", "f">>, <<"f", "F">>, <<"ff", "ff">>, <<"ff", "fF">>,
      <<"female", "female">>, <<"female", "Female">>, <<"female", "FEMALE">>,
      <<"2", "2">>, <<"0", "0">>,
      <<"unknown", "unknown">>, <<"unknown", "Unknown">>, <<"unknown", "UNKNOWN">>,
      <<"", "">>, <<"x", "X">>, <<"other", "Other">>, <<"3", "3">>, <<"1.0", "1.0">>,
      <<"mf", "MF">>, <<"m f", "m f">>, <<"males", "males">>, <<"fem", "Fem">>,
      <<"man", "man">>, <<"woman", "Woman">>, <<"n/a", "N/A">> }

Paddings == {"", " ", "  "}

\* the arguments of normalize_gender: a missing value, or a spelling of a
\* word with blanks around it; `word` records the word that was written
GenderInputs ==
    {[word |-> NaN, gender_value |-> NaN]}
    \cup {[word |-> sp[1], gender_value |-> pre \o sp[2] \o post] :
              sp \in GenderSpellings, pre \in Paddings, post \in Paddings}

\* the caller calls pipeline.normalize_gender(input.gender_value)
Call_normalize_gender(input) ==
    /\ pc = "idle"
    /\ calls < MaxCalls
    /\ calls' = calls + 1
    /\ frame' = [gender_value |-> input.gender_value]
    /\ outcome' = normalize_gender(input.gender_value)
    /\ trace' = [method |-> "normalize_gender", word |-> input.word]
    /\ UNCHANGED <<data_sources, error_handler, consolidated_data, transformed_data,
                   pipeline_status, pc, output_file, error_log, runs>>

NextGender == \E input \in GenderInputs : Call_normalize_gender(input)

SpecGender == Init /\ [][NextGender]_vars

\* C14: normalize_gender is total onto {M, F, Unknown}: a value that, trimmed
\* and lower-cased, is m, mm, male or 1 gives M; f, ff, female or 2 gives F;
\* every other value (0, unknown, the empty text, a missing value, any other
\* text) gives Unknown.
C14_GenderTotal ==
    calls > 0 =>
        outcome = IF trace.word \in {"m", "mm", "male", "1"} THEN "M"
                  ELSE IF trace.word \in {"f", "ff", "female", "2"} THEN "F"
                  ELSE "Unknown"

\* ' FEMALE ' was normalised to F
C14_Witness ==
    /\ calls > 0
    /\ frame.gender_value = " FEMALE "
    /\ outcome = "F"

-----------------------------------------------------------------------------
(* The rectifier passes of DataValidator called on a table by a client *)

DateCells == {"2020-01-05", "2020-13-45", NaN}

NumberCells == {"0100", "n/a", NaN}

NameCells == {"x", NaN}

\* the first column of a client's table: its name and the cells it may hold
ValidatorColumns ==
    {[name |-> n, cells |-> DateCells] : n \in {"dob", "Hire_Date"}}
    \cup {[name |-> n, cells |-> NumberCells] :
              n \in {"salary", "Base_Salary", "pay", "compensation", "net_pay",
                     "Compensation", "title"}}

\* the tables of up to MaxRows rows with the column col and a column 'name'
TablesOf(col) ==
    {Table(<<col.name, "name">>, rows) :
        rows \in UNION {[1..n -> {<<a, b>> : a \in col.cells, b \in NameCells}] :
                            n \in 0..MaxRows}}

ValidatorTables == UNION {TablesOf(col) : col \in ValidatorColumns}

\* required_columns arguments of rectify_missing_columns
RequiredColumnLists == {<<"name">>, <<"name", "bonus">>, <<"bonus", "grade">>}

\* fill_rules arguments of rectify_missing_values: dicts, as their items
FillRuleSets ==
    { <<>>,
      << <<"name", "Unknown">> >>,
      << <<"salary", "0">>, <<"name", "Unknown">> >>,
      << <<"bonus", "0">> >> }

\* a DataValidator over a fresh ErrorHandler, and a client holding a table
InitValidator ==
    /\ data_sources = <<>>
    /\ error_handler = ErrorHandlerInit
    /\ consolidated_data = None
    /\ transformed_data = None
    /\ pipeline_status = "initialized"
    /\ pc = "idle"
    /\ frame \in {[df |-> t] : t \in ValidatorTables}
    /\ output_file = None
    /\ error_log = None
    /\ outcome = "not called"
    /\ calls = 0
    /\ runs = 0
    /\ trace = NoTrace

\* the client runs `df = validator.<method>(df, args)`, and then the same
\* statement once more; got is what the pass returns and leaves in the ledger
ClientApplies(method, args, got) ==
    /\ pc \in {"idle", "applied"}
    /\ pc = "applied" => (trace.method = method /\ trace.args = args)
    /\ pc' = IF pc = "idle" THEN "applied" ELSE "reapplied"
    /\ frame' = [df |-> got.df]
    /\ error_handler' = got.eh
    /\ trace' = [method |-> method, args |-> args, df |-> frame.df, eh |-> error_handler]
    /\ calls' = calls + 1
    /\ UNCHANGED <<data_sources, consolidated_data, transformed_data, pipeline_status,
                   output_file, error_log, outcome, runs>>

Call_rectify_missing_columns(required_columns) ==
    ClientApplies("rectify_missing_columns", required_columns,
                  rectify_missing_columns(error_handler, frame.df, required_columns, "client"))

Call_rectify_data_types ==
    ClientApplies("rectify_data_types", <<>>, rectify_data_types(error_handler, frame.df))

Call_rectify_duplicates ==
    ClientApplies("rectify_duplicates", <<>>,
                  rectify_duplicates(error_handler, frame.df, "client"))

Call_rectify_missing_values(fill_rules) ==
    ClientApplies("rectify_missing_values", fill_rules,
                  rectify_missing_values(error_handler, frame.df, fill_rules))

NextValidator ==
    \/ \E required_columns \in RequiredColumnLists :
            Call_rectify_missing_columns(required_columns)
    \/ Call_rectify_data_types
    \/ Call_rectify_duplicates
    \/ \E fill_rules \in FillRuleSets : Call_rectify_missing_values(fill_rules)

SpecValidator == InitValidator /\ [][NextValidator]_vars

\* the client's last call was validator.<method>
Called(method) == pc \in {"applied", "reapplied"} /\ trace.method = method

\* the records the last call appended to a log
Logged(log_before, log_now) == SubSeq(log_now, Len(log_before) + 1, Len(log_now))

\* C15: for each (column, fill value) rule of rectify_missing_values whose
\* column exists and holds k null cells, exactly those k cells become the
\* fill value, every other cell of the table is unchanged, and a correction
\* with affected_rows = k is logged if and only if k > 0; a rule whose column
\* is absent changes nothing and logs nothing.
C15_FillsExactlyNulls ==
    Called("rectify_missing_values") =>
        LET before == trace.df
            after == frame.df
            fill_rules == trace.args
            RuleOf(col) == {i \in 1..Len(fill_rules) : fill_rules[i][1] = col}
            Nulls(col) == {r \in 1..NumRows(before) :
                              isna(before.rows[r][IndexOf(col, before.cols)])}
            Filling == {i \in 1..Len(fill_rules) :
                            /\ HasColumn(before, fill_rules[i][1])
                            /\ Nulls(fill_rules[i][1]) # {}}
            corrections == Logged(trace.eh.corrections, error_handler.corrections)
        IN  /\ after.cols = before.cols
            /\ NumRows(after) = NumRows(before)
            /\ \A r \in 1..NumRows(before) : \A c \in 1..Len(before.cols) :
                  after.rows[r][c] =
                      IF isna(before.rows[r][c]) /\ RuleOf(before.cols[c]) # {}
                      THEN fill_rules[CHOOSE i \in RuleOf(before.cols[c]) : TRUE][2]
                      ELSE before.rows[r][c]
            /\ Len(corrections) = Cardinality(Filling)
            /\ \A i \in Filling :
                  \E j \in 1..Len(corrections) :
                      /\ corrections[j].affected_rows.value = Cardinality(Nulls(fill_rules[i][1]))
                      /\ Contains(corrections[j].action, " in " \o fill_rules[i][1] \o " with ")
            /\ error_handler.errors = trace.eh.errors
            /\ error_handler.warnings = trace.eh.warnings

\* two rules were applied to a table with two nulls in one rule's column and
\* one in the other's, beside cells that are not null
C15_Witness ==
    /\ Called("rectify_missing_values")
    /\ pc = "applied"
    /\ trace.df = Table(<<"salary", "name">>, << <<NaN, NaN>>, <<NaN, "x">> >>)
    /\ Len(trace.args) = 2
    /\ Len(error_handler.corrections) = 2

\* C16: each of the four rectifier passes is idempotent: applied a second
\* time, to its own output, it returns the table unchanged (and so, for
\* duplicate removal, the same number of rows).
C16_PassesIdempotent == pc = "reapplied" => frame.df = trace.df

\* rectify_data_types was applied twice to a table in which the first
\* application converted a date and a value that is no date
C16_Witness ==
    /\ pc = "reapplied"
    /\ trace.method = "rectify_data_types"
    /\ frame.df.cols[1] = "dob"
    /\ Column(frame.df, "dob") = <<"2020-01-05 00:00:00", NaN>>
    /\ Len(error_handler.corrections) = 2

\* the names C20 gives for a date column and for a numeric column
NamedDate(col) == Contains(lower(col), "date") \/ Contains(lower(col), "dob")

NumericWords == {"salary", "pay", "compensation"}

\* the name is or contains one of the words, as written
NamedNumeric(col) == \E w \in NumericWords : Contains(col, w)

\* the name is or contains one of the words in some casing
NamedNumericAnyCase(col) == \E w \in NumericWords : Contains(lower(col), w)

\* C20: rectify_data_types coerces a column to date if and only if its name
\* contains 'date' or 'dob' in any casing, and otherwise to numeric if and
\* only if its name is or contains 'salary', 'pay' or 'compensation';
\* unparseable values become null, every other column is unchanged, and one
\* correction is logged that counts the touched columns.  A name that holds
\* one of the three words in another casing may be coerced or left alone.
C20_CoercesByName ==
    Called("rectify_data_types") =>
        LET before == trace.df
            after == frame.df
            Columns == 1..Len(before.cols)
            dates == {c \in Columns : NamedDate(before.cols[c])}
            numbers == {c \in Columns \ dates : NamedNumeric(before.cols[c])}
            either == {c \in Columns \ dates : NamedNumericAnyCase(before.cols[c])}
            corrections == Logged(trace.eh.corrections, error_handler.corrections)
        IN  /\ after.cols = before.cols
            /\ NumRows(after) = NumRows(before)
            /\ \A r \in 1..NumRows(before) : \A c \in Columns :
                  \/ c \in dates /\ after.rows[r][c] = to_datetime(before.rows[r][c])
                  \/ c \in either /\ after.rows[r][c] = to_numeric(before.rows[r][c])
                  \/ c \notin dates \cup numbers /\ after.rows[r][c] = before.rows[r][c]
            /\ Len(corrections) <= 1
            /\ dates \cup numbers # {} => Len(corrections) = 1
            /\ \A j \in 1..Len(corrections) :
                  \E n \in Cardinality(dates \cup numbers)..Cardinality(dates \cup either) :
                      corrections[j].action =
                          "Rectified data types for " \o ToString(n) \o " columns"

\* save_error_log has written the report of the current run
Persisted == runs > 0 /\ pc \in {"finally_summary", "idle"} /\ error_log # None

\* C17: the ledger is created once per run: the report persisted at the end
\* of a run, a second run on the same instance included, holds only records
\* that were logged during that run.
C17_LedgerPerRun ==
    Persisted =>
        /\ IsPrefix(error_log.report.errors,
                    Logged(trace.ledger_at_call.errors, error_handler.errors))
        /\ IsPrefix(error_log.report.warnings,
                    Logged(trace.ledger_at_call.warnings, error_handler.warnings))
        /\ IsPrefix(error_log.report.corrections,
                    Logged(trace.ledger_at_call.corrections, error_handler.corrections))

\* the loop of extract_and_map_all is about to call extract_source
AtExtract == pc = "extract_source" /\ frame.source_idx <= Len(data_sources)

\* the file has none of the suffixes extract_source reads
Unsupported(filename) == suffix(filename) \notin {".csv", ".xlsx", ".xls"}

\* C18: extract_source checks that the file exists before it looks at the
\* format, so a missing file is reported as not found whatever its
\* extension; an existing file with an unsupported extension, or one the
\* reader raises on, raises nothing and becomes one ledger error; on every
\* outcome the source's status is set to something other than 'registered'.
C18_ExtractOutcomes ==
    [][AtExtract =>
          LET i == frame.source_idx
              filename == data_sources[i].filename
              errors == Logged(error_handler.errors, error_handler'.errors)
          IN  /\ data_sources'[i].status # "registered"
              /\ ~FileExists(filename) =>
                    /\ data_sources'[i].status = "file_not_found"
                    /\ Len(errors) = 1
                    /\ errors[1].error = "File not found: " \o InputPath \o "/" \o filename
              /\ (FileExists(filename) /\ (Unsupported(filename) \/ ReaderRaises(filename))) =>
                    /\ data_sources'[i].status = "extraction_failed"
                    /\ Len(errors) = 1
                    /\ errors[1].stage = "extraction_" \o data_sources[i].name
                    /\ pc' = "extract_source"
                    /\ outcome' = "running"
                    /\ pipeline_status' = pipeline_status]_vars

\* a run over a missing file with an unsupported extension and an existing
\* file with an unsupported extension
C18_Witness ==
    /\ RunEnded
    /\ \E i, j \in 1..Len(data_sources) :
          /\ data_sources[i].filename = "phantom.txt"
          /\ data_sources[i].status = "file_not_found"
          /\ data_sources[j].filename = "notes.txt"
          /\ data_sources[j].status = "extraction_failed"

\* the kind of failure a source meets in the per-source loop, told from its
\* file and its mapping: the checks of extract_source and map_columns in the
\* order the code makes them
FailureKind(entry) ==
    IF ~FileExists(entry.filename) THEN "NotFound"
    ELSE IF Unsupported(entry.filename) THEN "UnsupportedFormat"
    ELSE IF ReaderRaises(entry.filename) THEN "ParseError"
    ELSE IF IsEmpty(FileTable(entry.filename)) THEN "ValidationFailure"
    ELSE IF NoKeyMatches(entry.mapping, FileTable(entry.filename)) THEN "MappingFailure"
    ELSE "none"

\* the errors of the current run that name the source or its file
ErrorsAbout(entry) ==
    LET errors == Logged(trace.ledger_at_call.errors, error_handler.errors)
    IN  {k \in 1..Len(errors) :
            \/ Contains(errors[k].stage, entry.name)
            \/ Contains(errors[k].error, entry.filename)}

\* the warnings of the current run logged under the source's name
WarningsAbout(entry) ==
    LET warnings == Logged(trace.ledger_at_call.warnings, error_handler.warnings)
    IN  {k \in 1..Len(warnings) : warnings[k].stage = entry.name}

\* C19: NotFound, UnsupportedFormat, ParseError and MappingFailure are each
\* recorded as one error; ValidationFailure (an empty table) is recorded as
\* a warning and no error; in every case the source ends in a failure status
\* with no table stored, and every other registered source is still
\* processed.
C19_FailureTaxonomy ==
    LoopOver =>
        \A i \in 1..Len(data_sources) :
            LET entry == data_sources[i]
                kind == FailureKind(entry)
            IN  /\ kind \in {"NotFound", "UnsupportedFormat", "ParseError", "MappingFailure"} =>
                      Cardinality(ErrorsAbout(entry)) = 1
                /\ kind = "ValidationFailure" =>
                      ErrorsAbout(entry) = {} /\ Cardinality(WarningsAbout(entry)) = 1
                /\ kind # "none" =>
                      /\ entry.status \in FailureStatuses
                      /\ entry.data = None
                      /\ trace.processed = SourceNames(data_sources)

\* an empty table came first and a source after it was mapped and stored
C19_Witness ==
    /\ LoopOver
    /\ Len(data_sources) = 2
    /\ FailureKind(data_sources[1]) = "ValidationFailure"
    /\ data_sources[1].status = "validation_failed"
    /\ data_sources[2].status = "mapped"
    /\ data_sources[2].data # None

\* the loop of extract_and_map_all is about to call map_columns on a table
\* that has at least one of the mapping's keys
AtMappable ==
    /\ pc = "map_columns"
    /\ ~NoKeyMatches(data_sources[frame.source_idx].mapping, frame.df)

\* C21: when at least one mapping key is a column of the table, map_columns
\* returns a table with the same rows whose columns are the intersecting
\* columns under their mapped names, every other column dropped, and a
\* 'source' column holding the source's name in every row; mapping keys the
\* table lacks produce a warning only and do not fail the mapping.
C21_MapColumns ==
    [][AtMappable =>
          LET entry == data_sources[frame.source_idx]
              df == frame.df
              keys == SeqToSet(MappingKeys(entry.mapping))
              present == {k \in keys : HasColumn(df, k)}
              df_mapped == frame'.df
              warnings == Logged(error_handler.warnings, error_handler'.warnings)
          IN  /\ df_mapped # None
              /\ pc' = "rectify"
              /\ data_sources'[frame.source_idx].status = "mapped"
              /\ SeqToSet(df_mapped.cols) =
                    {MappingGet(entry.mapping, k) : k \in present} \cup {"source"}
              /\ Len(df_mapped.cols) = Cardinality(present) + 1
              /\ NumRows(df_mapped) = NumRows(df)
              /\ \A r \in 1..NumRows(df) :
                    /\ df_mapped.rows[r][IndexOf("source", df_mapped.cols)] = entry.name
                    /\ \A k \in present :
                          df_mapped.rows[r][IndexOf(MappingGet(entry.mapping, k), df_mapped.cols)]
                              = df.rows[r][IndexOf(k, df.cols)]
              /\ error_handler'.errors = error_handler.errors
              /\ IF present = keys THEN warnings = <<>>
                 ELSE /\ Len(warnings) = 1
                      /\ \A k \in keys \ present :
                            Contains(warnings[1].warning, "'" \o k \o "'")]_vars

\* map_columns has mapped a table, dropping a column the mapping does not
\* name and warning about a key the table lacks
C21_Witness ==
    /\ pc = "rectify"
    /\ CurrentSource = "payroll"
    /\ frame.df.cols = <<"employee_id", "salary", "date_of_birth", "source">>
    /\ NumRows(frame.df) = 4
    /\ \E i \in 1..Len(error_handler.warnings) :
          error_handler.warnings[i].stage = "mapping_payroll"

\* a step in which transform runs on a consolidated table and succeeds
TransformSucceeds ==
    /\ pc = "transform"
    /\ consolidated_data # None
    /\ pc' = "load"

\* C22: transform applies gender normalization, then date formatting, then
\* missing-value filling, then duplicate removal, then the final-column
\* projection: the table it stores is the result of the five steps applied
\* in that order, the corrections it logs are those of the filling followed
\* by that of the duplicate removal, and rows that become equal through
\* normalization, formatting or filling are removed as duplicates.
C22_TransformOrder ==
    [][TransformSucceeds =>
          LET config == trace.config
              on(key, default) == ConfigGet(config, key, default)
              normalized == IF HasColumn(consolidated_data, "gender")
                            THEN ApplyColumn(consolidated_data, "gender",
                                    [v \in Cells(consolidated_data) |-> normalize_gender(v)])
                            ELSE consolidated_data
              formatted == FormatDates(normalized, on("date_columns", <<>>))
              filled == rectify_missing_values(error_handler, formatted,
                                               on("fill_missing_values", <<>>))
              dedup == Truthy(config) /\ on("remove_duplicates", TRUE)
              deduped == IF dedup THEN rectify_duplicates(filled.eh, filled.df, "transform")
                         ELSE filled
              final_columns == on("final_columns", <<>>)
              projected == IF final_columns # <<>>
                           THEN SelectColumns(deduped.df,
                                              SelectSeqBy(final_columns, deduped.df.cols))
                           ELSE deduped.df
          IN  /\ transformed_data' = projected
              /\ error_handler'.corrections = deduped.eh.corrections
              /\ (dedup /\ final_columns = <<>>) => NoDuplicateRows(transformed_data')]_vars

\* transform has removed a row that duplicates another only after its gender
\* cell was normalized
C22_Witness ==
    /\ pc = "load"
    /\ Truthy(trace.config)
    /\ ConfigGet(trace.config, "final_columns", <<>>) = <<>>
    /\ consolidated_data # None /\ transformed_data # None
    /\ NoDuplicateRows(consolidated_data)
    /\ NumRows(transformed_data) < NumRows(consolidated_data)

\* a step in which consolidate() runs, inside run() or called directly
ConsolidateRuns ==
    \/ pc = "consolidate"
    \/ pc = "idle" /\ pc' = "idle" /\ calls' # calls /\ data_sources' = data_sources

\* consolidate() returns True in this step
ConsolidateReturnsTrue ==
    IF pc = "consolidate" THEN pc' = "transform" ELSE outcome' = "returned True"

\* the errors consolidate() itself logs in this step
ConsolidationErrors ==
    LET logged == Logged(error_handler.errors, error_handler'.errors)
        OfConsolidate(e) == e.stage = "consolidation"
    IN  SelectSeq(logged, OfConsolidate)

\* consolidate() fails with the NoData error and leaves consolidated_data alone
FailsWithNoData ==
    /\ ~ConsolidateReturnsTrue
    /\ Len(ConsolidationErrors) = 1
    /\ ConsolidationErrors[1].error = "No data sources to consolidate"
    /\ consolidated_data' = consolidated_data

\* consolidate() succeeds and stores the concatenation of the stored tables
SucceedsAndStores ==
    /\ ConsolidateReturnsTrue
    /\ ConsolidationErrors = <<>>
    /\ consolidated_data' # None
    /\ consolidated_data' = concat(StoredTables(data_sources))

\* C23 as stated: consolidate fails, with the NoData error, only if no source
\* has a stored table; with at least one stored table it succeeds and sets
\* consolidated_data.
C23_FailsOnlyWithoutTables ==
    [][ConsolidateRuns =>
          IF StoredTables(data_sources) = <<>> THEN FailsWithNoData
          ELSE SucceedsAndStores]_vars

\* C23, amended: consolidate fails with the NoData error exactly when no
\* source has a stored table; with at least one stored table it succeeds and
\* sets consolidated_data to their concatenation, unless pd.concat raises, in
\* which case it logs 'Failed to consolidate data', returns failure and
\* leaves consolidated_data as it was.
C23_FailsWithoutTablesOrOnRaise ==
    [][ConsolidateRuns =>
          IF StoredTables(data_sources) = <<>> THEN FailsWithNoData
          ELSE \/ SucceedsAndStores
               \/ /\ ~ConsolidateReturnsTrue
                  /\ Len(ConsolidationErrors) = 1
                  /\ ConsolidationErrors[1].error = "Failed to consolidate data"
                  /\ consolidated_data' = consolidated_data]_vars

\* consolidate() has failed for want of tables, and later succeeded on the
\* tables a run stored
C23_Witness ==
    /\ pc = "idle"
    /\ outcome = "returned True"
    /\ runs = 1
    /\ consolidated_data # None
    /\ \E i \in 1..Len(error_handler.errors) :
          error_handler.errors[i].error = "No data sources to consolidate"

\* C24: on every exit path of run(), after the ledger is persisted,
\* print_error_summary runs to completion, whatever the ledger contains.
C24_SummaryOnEveryExit ==
    RunEnded =>
        /\ trace.saves = 1
        /\ trace.summaries = 1
        /\ outcome \in {"returned True", "returned False"}

\* C25: every correction a rectifier pass logs carries the stage tag of its
\* caller: the source's name when the pass runs in the per-source loop,
\* 'transform' when it runs inside transform.
C25_CorrectionsCarryCallerStage ==
    [][LET corrections ==
               Logged(error_handler.corrections, error_handler'.corrections)
       IN  /\ pc = "rectify" =>
                 \A i \in 1..Len(corrections) : corrections[i].stage = CurrentSource
           /\ pc = "transform" =>
                 \A i \in 1..Len(corrections) : corrections[i].stage = "transform"]_vars

\* transform has stored a table under a configuration that enables the
\* duplicate removal
TransformedDeduplicated ==
    /\ Transformed
    /\ Truthy(trace.config)
    /\ ConfigGet(trace.config, "remove_duplicates", TRUE)

\* C26: when duplicate removal is enabled, the table stored in
\* transformed_data, and the file load writes from it, hold no two identical
\* rows, also when final_columns selects a subset of the columns.
C26_NoDuplicatesAfterProjection ==
    /\ TransformedDeduplicated => NoDuplicateRows(transformed_data)
    /\ (RunEnded /\ pipeline_status = "completed_successfully"
            /\ Truthy(trace.config) /\ ConfigGet(trace.config, "remove_duplicates", TRUE))
        => \A i, j \in 1..Len(output_file.records) :
              output_file.records[i] = output_file.records[j] => i = j

\* C27: the consolidated table of a run holds rows only of sources that
\* completed extraction, validation, mapping and rectification in that same
\* run, also when an earlier run on the instance had processed a source that
\* fails now.
C27_OnlySourcesOfThisRun ==
    Consolidated =>
        \A r \in 1..NumRows(consolidated_data) :
            consolidated_data.rows[r][IndexOf("source", consolidated_data.cols)]
                \in SeqToSet(trace.completed)

\* C28: run() returns True exactly when pipeline_status is
\* 'completed_successfully' at its end; in that status consolidated_data and
\* transformed_data are set and the output file is written; in every
\* failed_* status run() returns False.
C28_ReturnMatchesStatus ==
    RunEnded =>
        /\ (outcome = "returned True") <=> (pipeline_status = "completed_successfully")
        /\ pipeline_status = "completed_successfully" =>
              /\ consolidated_data # None
              /\ transformed_data # None
              /\ output_file # None
        /\ pipeline_status \in TerminalStatuses \ {"completed_successfully"} =>
              outcome = "returned False"

\* C29: at the end of the extract/map phase, for every registered source, a
\* table is stored if and only if the status is 'mapped' if and only if the
\* source was counted as successful; a source counted as failed has a
\* failure status and no stored table.
C29_StoredIffMappedIffCounted ==
    LoopOver =>
        \A i \in 1..Len(data_sources) :
            LET entry == data_sources[i]
                counted == entry.name \in SeqToSet(trace.completed)
            IN  /\ (entry.data # None) <=> (entry.status = "mapped")
                /\ (entry.status = "mapped") <=> counted
                /\ ~counted =>
                      /\ entry.status \notin {"registered", "extracted", "mapped"}
                      /\ entry.data = None

\* every cell of the gender column of df is one of M, F, Unknown
GenderNormalized(df) ==
    \A r \in 1..NumRows(df) :
        df.rows[r][IndexOf("gender", df.cols)] \in {"M", "F", "Unknown"}

\* C30 as stated: after a successful transform of a table that has a gender
\* column, every gender cell of transformed_data is one of M, F, Unknown and
\* none is null, whatever the configuration; and transform leaves
\* consolidated_data unchanged.
C30_GenderNormalizedAlways ==
    [][(TransformSucceeds /\ HasColumn(consolidated_data, "gender")) =>
          /\ consolidated_data' = consolidated_data
          /\ HasColumn(transformed_data', "gender") =>
                GenderNormalized(transformed_data')]_vars

\* C30, amended: after a successful transform of a table that has a gender
\* column, under a configuration that does not list 'gender' among its
\* date_columns, every gender cell of transformed_data is one of M, F,
\* Unknown and none is null, whatever the fill rules, the other date columns
\* and the duplicate-removal setting; and transform leaves consolidated_data
\* unchanged under every configuration.
C30_GenderNormalizedUnlessDate ==
    [][(TransformSucceeds /\ HasColumn(consolidated_data, "gender")) =>
          /\ consolidated_data' = consolidated_data
          /\ (/\ HasColumn(transformed_data', "gender")
              /\ ~InSeq("gender", ConfigGet(trace.config, "date_columns", <<>>)))
               => GenderNormalized(transformed_data')]_vars

\* transform has normalized a table whose gender column held a missing value
\* and spellings other than M, F, Unknown, under a configuration with date
\* columns and fill rules
C30_Witness ==
    /\ Transformed
    /\ consolidated_data # None
    /\ HasColumn(consolidated_data, "gender")
    /\ ~GenderNormalized(consolidated_data)
    /\ \E r \in 1..NumRows(consolidated_data) :
          isna(consolidated_data.rows[r][IndexOf("gender", consolidated_data.cols)])
    /\ ConfigGet(trace.config, "date_columns", <<>>) = <<"date_of_birth">>
    /\ ConfigGet(trace.config, "fill_missing_values", <<>>) # <<>>
    /\ HasColumn(transformed_data, "gender")
    /\ GenderNormalized(transformed_data)

====
